---- MODULE Spec2Model ----
(***************************************************************************)
(* The SkillSwap server (src/index.js): the session lifecycle and the      *)
(* rating gate, the accounts, the skill catalogue and its suggestions, and *)
(* the per-user skill lists.  Every handler is modelled statement by       *)
(* statement: one step per awaited database statement, so that             *)
(* concurrently handled requests interleave exactly where the code awaits  *)
(* the database; a statement that waits for a row lock is a step of its    *)
(* own once the lock is free.                                              *)
(***************************************************************************)
EXTENDS Integers, FiniteSets, Sequences, Bags, TLC

\* ---- bounds of the model ------------------------------------------------
MaxUser == 3
MaxSessions == 1
MaxInFlight == 2
MaxSuggestions == 2
MaxNewUsers == 1
MaxNewSkills == 1
MaxNewSuggestions == 1
MaxListRows == 2

\* ---- program constants --------------------------------------------------
MaxUrlLen == 255

UserIds == 1..MaxUser

\* The accounts registered before the run, by the email of each: the email is
\* the one column of Users a handler compares (UNIQUE NOT NULL).
SeedEmail(id) ==
  IF id = 1 THEN "ada@calkins.edu" ELSE IF id = 2 THEN "ben@calkins.edu"
  ELSE IF id = 3 THEN "cleo@calkins.edu" ELSE IF id = 4 THEN "dev@calkins.edu"
  ELSE "staff@calkins.edu"
SeedUsers == [id \in UserIds |-> SeedEmail(id)]

\* The skill catalogue once the administrator has seeded it (skill_name by
\* skill_id), and the suggestions the users have sent in since, which the
\* suggestion form accepts only under names that are not in use.
SeedSkills == <<"Guitar", "Piano">>
SuggestedName(id) == IF id = 1 THEN "Chess" ELSE IF id = 2 THEN "Yoga" ELSE "Skill"
SeedSuggestions ==
  [id \in 1..MaxSuggestions |->
     [suggested_skill_name |-> SuggestedName(id), status |-> "Pending"]]

\* The two per-user skill lists, kept by two handlers of the same text.
SkillLists == {"User_Skills_Offered", "User_Skills_Sought"}

\* ---- values of a JSON request body ---------------------------------------
\* A body field is absent (<<>>) or present (<<v>>); an id is a JSON number
\* or a numeric string, which JavaScript's === tells apart and the database
\* coerces to the same integer.
Absent == <<>>
Null == <<>>
JNum(n) == [ty |-> "number", v |-> n]
JStr(n) == [ty |-> "string", v |-> n]
JUndef == [ty |-> "undefined", v |-> 0]
JNull == [ty |-> "null", v |-> 0]

\* JavaScript truthiness of an id or a count: undefined, null and the number 0
\* are falsy; a numeric string, "0" included, is truthy.
TruthyId(x) == x.ty \notin {"undefined", "null"} /\ ~(x.ty = "number" /\ x.v = 0)
\* JavaScript truthiness of an optional string: undefined and "" are falsy.
Truthy(o) == o # Absent /\ o[1] # ""
\* `x || null` and `x || dflt` on an optional string.
OrNull(o) == IF Truthy(o) THEN o ELSE Null
\* Faulty variant: the default only for an absent value, an empty one kept.
OrDefault_KeepEmpty(o, dflt) == IF o # Absent THEN o ELSE <<dflt>>
OrDefault(o, dflt) == IF Truthy(o) THEN o ELSE <<dflt>>

ShortUrl == "https://meet.example/abc"
LongUrl == "https://meet.example/aaaaaaaaaaaaaaaaaaaaaaaaaaaaaaaaaaaaaaaaaaaaaaaaaaaaaaaaaaaaaaaaaaaaaaaaaaaaaaaaaaaaaaaaaaaaaaaaaaaaaaaaaaaaaaaaaaaaaaaaaaaaaaaaaaaaaaaaaaaaaaaaaaaaaaaaaaaaaaaaaaaaaaaaaaaaaaaaaaaaaaaaaaaaaaaaaaaaaaaaaaaaaaaaaaaaaaaaaaaaaaaaaaaaaaaaaaa"

\* ---- the inputs the requests are drawn from --------------------------------
\* The handlers treat all user ids alike: in the requests modelled user 1 is
\* the provider, user 2 the requester and the last user takes part in no
\* session.
SessionIdInputs == {JNum(s) : s \in 1..MaxSessions} \cup {JUndef}
UrlInputs == {Absent, <<"">>, <<ShortUrl>>, <<LongUrl>>}
ReasonInputs == {Absent, <<"">>, <<"Schedule conflict">>}

\* Bodies of POST /api/sessions/request: the complete bodies of user 2 asking
\* user 1 for a session, a body whose requester is the provider (as the same
\* number, and as the numeric string "1", which === tells apart from 1), and
\* one body for each required field left out.
FullRequestBodies ==
  [requesterId : {JNum(2)}, providerId : {JNum(1)}, skillTaughtId : {JNum(1)},
   sessionDateTime : {<<"2025-06-01T10:00Z">>, <<"2025-06-01T12:00+02:00">>},
   locationType : {<<"Online">>, <<"InPerson">>}, meetingUrl : UrlInputs]
BaseRequestBody ==
  [requesterId |-> JNum(2), providerId |-> JNum(1), skillTaughtId |-> JNum(1),
   sessionDateTime |-> <<"2025-06-01T10:00Z">>, locationType |-> <<"Online">>,
   meetingUrl |-> Absent]
RequestBodies ==
  FullRequestBodies \cup
  {[BaseRequestBody EXCEPT !.requesterId = JNum(1)],
   [BaseRequestBody EXCEPT !.requesterId = JStr(1)],
   [BaseRequestBody EXCEPT !.requesterId = JUndef],
   [BaseRequestBody EXCEPT !.providerId = JUndef],
   [BaseRequestBody EXCEPT !.skillTaughtId = JUndef],
   [BaseRequestBody EXCEPT !.sessionDateTime = Absent],
   [BaseRequestBody EXCEPT !.locationType = Absent]}

\* Bodies of POST /api/sessions/rate, for each session: user 2 rating user 1
\* (like or dislike, with or without a comment), a rating of the user who
\* takes part in no session, a self-rating (as the same number, and as "1"
\* about 1), a likeStatus of null, and one body for each required field left
\* out. likeStatus is absent or carries the JSON literal sent: true, false
\* or null.
BaseRateBody(s) ==
  [sessionId |-> JNum(s), raterId |-> JNum(2), rateeId |-> JNum(1),
   likeStatus |-> <<"true">>, feedbackText |-> Absent]
FullRateBodies ==
  {[BaseRateBody(s) EXCEPT !.likeStatus = <<l>>] :
     s \in 1..MaxSessions, l \in {"true", "false"}}
RateBodies ==
  FullRateBodies \cup
  UNION {{[BaseRateBody(s) EXCEPT !.feedbackText = <<"Great session">>],
          [BaseRateBody(s) EXCEPT !.rateeId = JNum(MaxUser)],
          [BaseRateBody(s) EXCEPT !.raterId = JNum(1)],
          [BaseRateBody(s) EXCEPT !.raterId = JStr(1)],
          [BaseRateBody(s) EXCEPT !.raterId = JUndef],
          [BaseRateBody(s) EXCEPT !.rateeId = JUndef],
          [BaseRateBody(s) EXCEPT !.likeStatus = <<"null">>],
          [BaseRateBody(s) EXCEPT !.likeStatus = Absent]} : s \in 1..MaxSessions}
  \cup {[BaseRateBody(1) EXCEPT !.sessionId = JUndef]}

\* ---- state -------------------------------------------------------------------
\* Users: the rows of the Users table, email by user_id (its other columns are
\* compared by none of the handlers below), and next_user_id its SERIAL
\* sequence; Skills: the Skills table, skill_name by skill_id, and
\* next_skill_id its sequence; Skill_Suggestions: the suggestions, by
\* suggestion_id, and next_suggestion_id their sequence; User_Skills: the
\* committed rows of User_Skills_Offered and of User_Skills_Sought, each with
\* its user_skill_id, and next_user_skill_id the sequence of each table;
\* clients: the number of pool connections checked out and not yet released;
\* Sessions: the rows of the Sessions table, by session_id; next_session_id:
\* its SERIAL sequence; Ratings: the rows of the Ratings table, a bag (the
\* generated rating_id, which nothing reads, is left out, so two rows may be
\* equal); pending: the handlers that await the database between two of
\* their statements, a bag of their local variables; response: the HTTP
\* response sent by the step just taken, NoResponse when it sent none.
VARIABLES Users, next_user_id, Skills, next_skill_id, Skill_Suggestions,
          next_suggestion_id, User_Skills, next_user_skill_id, clients,
          Sessions, Ratings, next_session_id, pending, response

vars ==
  <<Users, next_user_id, Skills, next_skill_id, Skill_Suggestions,
    next_suggestion_id, User_Skills, next_user_skill_id, clients,
    Sessions, Ratings, next_session_id, pending, response>>

\* The tables the session handlers only read, and the ones they write.
accounts == <<Users, next_user_id>>
skillCatalogue == <<Skills, next_skill_id>>
suggestions == <<Skill_Suggestions, next_suggestion_id>>
skillLists == <<User_Skills, next_user_skill_id>>
catalogue == <<accounts, skillCatalogue, suggestions, skillLists, clients>>
lifecycle == <<Sessions, Ratings, next_session_id>>

\* The local variables of a handler at its entry.
NewReq ==
  [op |-> "none", pc |-> "start", userId |-> 0, sessionId |-> 0,
   meetingUrl |-> Absent, reason |-> Absent, raterId |-> JUndef,
   rateeId |-> JUndef, likeStatus |-> Absent, feedbackText |-> Absent,
   currentStatus |-> "", newStatus |-> ""]

NoResponse ==
  [op |-> "none", userId |-> 0, sessionId |-> 0, status |-> 0, id |-> 0,
   ratings |-> Absent, sessions |-> {}]

\* The database once the accounts are registered, the skill catalogue is
\* seeded and the suggestions are in: no session, no rating and no skill list
\* yet, the SERIAL sequence of the sessions at 1.
Init ==
  /\ Users = SeedUsers
  /\ next_user_id = MaxUser + 1
  /\ Skills = SeedSkills
  /\ next_skill_id = Len(SeedSkills) + 1
  /\ Skill_Suggestions = SeedSuggestions
  /\ next_suggestion_id = MaxSuggestions + 1
  /\ User_Skills = [list \in SkillLists |-> {}]
  /\ next_user_skill_id = [list \in SkillLists |-> 1]
  /\ clients = 0
  /\ Sessions = <<>>
  /\ Ratings = EmptyBag
  /\ next_session_id = 1
  /\ pending = EmptyBag
  /\ response = NoResponse

\* A request is accepted while fewer than `limit` requests are being handled.
CanStart(limit) == BagCardinality(pending) < limit.inFlight

\* The limits of a run: how many requests are handled at a time, and how many
\* session ids the SERIAL sequence gives out.
OneAtATime == [inFlight |-> 1, sessions |-> MaxSessions]
Interleaved == [inFlight |-> MaxInFlight, sessions |-> MaxSessions]
SeveralSessions == [inFlight |-> 1, sessions |-> MaxSessions + 1]

\* The handler whose locals are r answers with HTTP status `code`.
Respond(r, code) ==
  response' = [op |-> r.op, userId |-> r.userId, sessionId |-> r.sessionId,
               status |-> code, id |-> 0, ratings |-> Absent, sessions |-> {}]

\* A handler answers from its first statement and returns.
Return(r, code) ==
  /\ Respond(r, code)
  /\ pending' = pending

\* A handler goes on to await its next database statement.
Await(r, pc) ==
  /\ pending' = pending (+) SetToBag({[r EXCEPT !.pc = pc]})
  /\ response' = NoResponse

\* The handler whose locals are r answers after its last statement.
Finish(r, code) ==
  /\ Respond(r, code)
  /\ pending' = pending (-) SetToBag({r})

SessionIds == DOMAIN Sessions

\* ---- the database ---------------------------------------------------------
\* Length of a stored text value (a VARCHAR(n) column rejects longer ones).
TextLen(o) == IF o = Null THEN 0 ELSE Len(o[1])

\* Faulty variant: the Sessions table without CONSTRAINT check_self_session.
SessionsConstraintsOk_NoSelfCheck(row) ==
  /\ TextLen(row.meeting_url) <= MaxUrlLen
  /\ row.provider_id \in DOMAIN Users
  /\ row.requester_id \in DOMAIN Users
  /\ row.skill_taught_id \in DOMAIN Skills

\* location_type VARCHAR(20), meeting_url VARCHAR(255): a value longer than
\* its column is refused (22001) when the statement is planned with the
\* values bound to it, before any row is formed and before a SERIAL draws.
SessionsValuesRefused(row) ==
  \/ Len(row.location_type) > 20
  \/ TextLen(row.meeting_url) > MaxUrlLen

\* Constraints of the Sessions table: meeting_url VARCHAR(255),
\* CONSTRAINT check_self_session CHECK (provider_id <> requester_id), and the
\* foreign keys on the participants and on the skill taught.
SessionsConstraintsOk(row) ==
  /\ TextLen(row.meeting_url) <= MaxUrlLen
  /\ row.provider_id # row.requester_id
  /\ row.provider_id \in DOMAIN Users
  /\ row.requester_id \in DOMAIN Users
  /\ row.skill_taught_id \in DOMAIN Skills

\* like_status BOOLEAN NOT NULL (23502) and CONSTRAINT check_rating_users
\* CHECK (rater_id <> ratee_id) (23514), both evaluated on the new row before
\* it reaches the unique index.
RatingsCheckOk(row) ==
  /\ row.like_status # Null
  /\ row.rater_id # row.ratee_id

\* The foreign keys of the Ratings table, checked after the row is inserted.
RatingsForeignKeysOk(row) ==
  /\ row.session_id \in SessionIds
  /\ row.rater_id \in DOMAIN Users
  /\ row.ratee_id \in DOMAIN Users

\* Faulty variant: the Ratings table without UNIQUE (session_id).
RatingsUniqueViolation_Never(sessionId) == FALSE

\* UNIQUE (session_id) of the Ratings table: inserting a second row for the
\* same session raises error 23505.
RatingsUniqueViolation(sessionId) ==
  \E rt \in BagToSet(Ratings) : rt.session_id = sessionId

\* ---- POST /api/sessions/request --------------------------------------------
RequestMissingFields(requesterId, providerId, skillTaughtId, sessionDateTime, locationType) ==
  \/ ~TruthyId(requesterId)
  \/ ~TruthyId(providerId)
  \/ ~TruthyId(skillTaughtId)
  \/ ~Truthy(sessionDateTime)
  \/ ~Truthy(locationType)

\* A TIMESTAMP WITH TIME ZONE column stores the instant its input text
\* denotes, here in minutes since 2025-06-01T00:00Z, for the texts the
\* requests supply and the texts the server returns.
TimestampInstant(text) ==
  CASE text = "2025-06-01T10:00Z" -> 600
    [] text = "2025-06-01T12:00+02:00" -> 600
    [] text = "2025-06-01T10:00:00.000Z" -> 600

\* The driver reads a timestamp as a Date, which JSON renders as ISO 8601 in
\* UTC with milliseconds.
TimestampJson(instant) ==
  CASE instant = 600 -> "2025-06-01T10:00:00.000Z"

NewSessionRow(id, providerId, requesterId, skillTaughtId, sessionDateTime, locationType, meetingUrl) ==
  [session_id |-> id, provider_id |-> providerId.v, requester_id |-> requesterId.v,
   skill_taught_id |-> skillTaughtId.v, session_date_time |-> TimestampInstant(sessionDateTime[1]),
   location_type |-> locationType[1], status |-> "Requested",
   meeting_url |-> OrNull(meetingUrl), cancellation_reason |-> Null]

RequestSession(limit, userId, requesterId, providerId, skillTaughtId, sessionDateTime, locationType, meetingUrl) ==
  LET r == [NewReq EXCEPT !.op = "request", !.userId = userId]
      row == NewSessionRow(next_session_id, providerId, requesterId, skillTaughtId,
                           sessionDateTime, locationType, meetingUrl)
  IN
  /\ CanStart(limit)
  /\ UNCHANGED catalogue
  /\ IF RequestMissingFields(requesterId, providerId, skillTaughtId, sessionDateTime, locationType)
       THEN /\ Return(r, 400)
            /\ UNCHANGED <<Sessions, Ratings, next_session_id>>
     ELSE IF requesterId = providerId
       THEN /\ Return(r, 400)
            /\ UNCHANGED <<Sessions, Ratings, next_session_id>>
     ELSE IF SessionsValuesRefused(row)
       THEN /\ Return(r, 500)
            /\ UNCHANGED <<Sessions, Ratings, next_session_id>>
     ELSE /\ next_session_id <= limit.sessions
          /\ next_session_id' = next_session_id + 1
          /\ IF SessionsConstraintsOk(row)
               THEN /\ Sessions' = Sessions @@ (next_session_id :> row)
                    /\ Return([r EXCEPT !.sessionId = next_session_id], 201)
               ELSE /\ Sessions' = Sessions
                    /\ Return(r, 500)
          /\ UNCHANGED <<Ratings>>

\* ---- POST /api/sessions/confirm --------------------------------------------
\* Faulty variant: the confirm UPDATE without `AND provider_id = $3`.
ConfirmWhere_AnyUser(row, sessionId, authenticatedUserId) ==
  /\ row.session_id = sessionId
  /\ row.status = "Requested"

\* Faulty variant: the confirm UPDATE without `AND status = 'Requested'`.
ConfirmWhere_AnyStatus(row, sessionId, authenticatedUserId) ==
  /\ row.session_id = sessionId
  /\ row.provider_id = authenticatedUserId

\* WHERE clause of the confirm UPDATE.
ConfirmWhere(row, sessionId, authenticatedUserId) ==
  /\ row.session_id = sessionId
  /\ row.provider_id = authenticatedUserId
  /\ row.status = "Requested"

\* Faulty variant: no meeting URL required of an Online session.
ConfirmUrlMissing_Never(locationType, meetingUrl) == FALSE

\* `locationType === 'Online' && !meetingUrl`: an Online session is confirmed
\* with a non-empty meeting URL only.
ConfirmUrlMissing(locationType, meetingUrl) ==
  locationType = "Online" /\ ~Truthy(meetingUrl)

\* Faulty variant: no limit on the length of the meeting URL.
ConfirmUrlTooLong_Never(meetingUrl) == FALSE

\* `meetingUrl && meetingUrl.length > 255`.
ConfirmUrlTooLong(meetingUrl) ==
  Truthy(meetingUrl) /\ Len(meetingUrl[1]) > MaxUrlLen

\* Validation and the SELECT of location_type.
ConfirmSelect(limit, userId, sessionId, meetingUrl) ==
  LET r == [NewReq EXCEPT !.op = "confirm", !.userId = userId,
                           !.sessionId = sessionId.v, !.meetingUrl = OrNull(meetingUrl)]
  IN
  /\ CanStart(limit)
  /\ UNCHANGED catalogue
  /\ IF ~TruthyId(sessionId)
       THEN Return(r, 400)
     ELSE IF sessionId.v \notin SessionIds
       THEN Return(r, 404)
     ELSE IF ConfirmUrlMissing(Sessions[sessionId.v].location_type, meetingUrl)
       THEN Return(r, 400)
     ELSE IF ConfirmUrlTooLong(meetingUrl)
       THEN Return(r, 400)
     ELSE Await(r, "confirm_update")
  /\ UNCHANGED <<Sessions, Ratings, next_session_id>>

\* Faulty variant: the test of the number of rows updated inverted.
ConfirmOutcome_Inverted(hit) == IF hit # {} THEN 403 ELSE 200

\* `if (result.rows.length === 0)`: 403 when the UPDATE changed no row, 200
\* otherwise.
ConfirmOutcome(hit) == IF hit = {} THEN 403 ELSE 200

\* Faulty variant: the confirm UPDATE keeps a meeting URL stored at request
\* time when the confirm supplies none (COALESCE($1, meeting_url)).
ConfirmUpdate_KeepsUrl(r) ==
  LET hit == {s \in SessionIds : ConfirmWhere(Sessions[s], r.sessionId, r.userId)}
  IN
  /\ r.pc = "confirm_update"
  /\ UNCHANGED catalogue
  /\ Sessions' = [s \in SessionIds |->
                    IF s \in hit
                      THEN [Sessions[s] EXCEPT
                              !.status = "Confirmed",
                              !.meeting_url = IF r.meetingUrl = Null
                                                THEN Sessions[s].meeting_url
                                                ELSE r.meetingUrl]
                      ELSE Sessions[s]]
  /\ Finish(r, ConfirmOutcome(hit))
  /\ UNCHANGED <<Ratings, next_session_id>>

\* The conditional UPDATE and the response.
ConfirmUpdate(r) ==
  LET hit == {s \in SessionIds : ConfirmWhere(Sessions[s], r.sessionId, r.userId)}
  IN
  /\ r.pc = "confirm_update"
  /\ UNCHANGED catalogue
  /\ Sessions' = [s \in SessionIds |->
                    IF s \in hit
                      THEN [Sessions[s] EXCEPT !.status = "Confirmed",
                                               !.meeting_url = r.meetingUrl]
                      ELSE Sessions[s]]
  /\ Finish(r, ConfirmOutcome(hit))
  /\ UNCHANGED <<Ratings, next_session_id>>

\* ---- POST /api/sessions/deny -----------------------------------------------
\* Faulty variant: no rejection of a session that is neither Requested nor
\* Confirmed.
DenyNewStatus_AnyStatus(currentStatus, userId, session) ==
  IF currentStatus = "Requested"
    THEN IF userId = session.requester_id THEN "Cancelled" ELSE "Denied"
  ELSE "Cancelled"

\* Faulty variant: the two outcomes for a Requested session exchanged.
DenyNewStatus_Swapped(currentStatus, userId, session) ==
  IF currentStatus = "Requested"
    THEN IF userId = session.requester_id THEN "Denied" ELSE "Cancelled"
  ELSE IF currentStatus = "Confirmed" THEN "Cancelled"
  ELSE ""

\* The new status chosen from the status that was read and from who acts;
\* "" when the handler rejects the request.
DenyNewStatus(currentStatus, userId, session) ==
  IF currentStatus = "Requested"
    THEN IF userId = session.requester_id THEN "Cancelled" ELSE "Denied"
  ELSE IF currentStatus = "Confirmed" THEN "Cancelled"
  ELSE ""

\* Faulty variant: the deny UPDATE without a WHERE clause.
DenyWhere_EveryRow(row, sessionId, currentStatus) == TRUE

\* WHERE clause of the deny UPDATE.
DenyWhere(row, sessionId, currentStatus) ==
  row.session_id = sessionId

\* Validation, the SELECT of status and participants, and the choice of the
\* new status.
DenySelect(limit, userId, sessionId, reason) ==
  LET r == [NewReq EXCEPT !.op = "deny", !.userId = userId,
                           !.sessionId = sessionId.v,
                           !.reason = OrDefault(reason, "No reason provided")]
  IN
  /\ CanStart(limit)
  /\ UNCHANGED catalogue
  /\ IF ~TruthyId(sessionId)
       THEN Return(r, 400)
     ELSE IF sessionId.v \notin SessionIds
       THEN Return(r, 404)
     ELSE LET session == Sessions[sessionId.v]
              newStatus == DenyNewStatus(session.status, userId, session)
              r2 == [r EXCEPT !.currentStatus = session.status, !.newStatus = newStatus]
          IN IF newStatus = ""
               THEN Return(r2, 400)
               ELSE Await(r2, "deny_update")
  /\ UNCHANGED <<Sessions, Ratings, next_session_id>>

\* The UPDATE and the success response.
DenyUpdate(r) ==
  LET hit == {s \in SessionIds : DenyWhere(Sessions[s], r.sessionId, r.currentStatus)}
  IN
  /\ r.pc = "deny_update"
  /\ UNCHANGED catalogue
  /\ Sessions' = [s \in SessionIds |->
                    IF s \in hit
                      THEN [Sessions[s] EXCEPT !.status = r.newStatus,
                                               !.cancellation_reason = r.reason]
                      ELSE Sessions[s]]
  /\ Finish(r, 200)
  /\ UNCHANGED <<Ratings, next_session_id>>

\* ---- POST /api/sessions/complete -------------------------------------------
\* Faulty variant: the complete UPDATE without `AND status = 'Confirmed'`.
CompleteWhere_AnyStatus(row, sessionId) == row.session_id = sessionId

\* Faulty variant: the complete UPDATE also takes a Requested session.
CompleteWhere_RequestedToo(row, sessionId) ==
  /\ row.session_id = sessionId
  /\ row.status \in {"Requested", "Confirmed"}

\* WHERE clause of the complete UPDATE.
CompleteWhere(row, sessionId) ==
  /\ row.session_id = sessionId
  /\ row.status = "Confirmed"

CompleteSession(limit, userId, sessionId) ==
  LET r == [NewReq EXCEPT !.op = "complete", !.userId = userId, !.sessionId = sessionId.v]
      hit == {s \in SessionIds : CompleteWhere(Sessions[s], sessionId.v)}
  IN
  /\ CanStart(limit)
  /\ UNCHANGED catalogue
  /\ IF ~TruthyId(sessionId)
       THEN /\ Return(r, 400)
            /\ Sessions' = Sessions
       ELSE /\ Sessions' = [s \in SessionIds |->
                              IF s \in hit
                                THEN [Sessions[s] EXCEPT !.status = "Completed"]
                                ELSE Sessions[s]]
            /\ IF hit = {} THEN Return(r, 400) ELSE Return(r, 200)
  /\ UNCHANGED <<Ratings, next_session_id>>

\* ---- POST /api/sessions/rate -----------------------------------------------
RateMissingFields(sessionId, raterId, rateeId, likeStatus) ==
  \/ ~TruthyId(sessionId)
  \/ ~TruthyId(raterId)
  \/ ~TruthyId(rateeId)
  \/ likeStatus = Absent

\* The status gate of the rating.
RateStatusOk(status) == status = "Completed"

\* The values of the INSERT: the driver sends null as NULL and a boolean as
\* its text, which the database reads as a BOOLEAN.
NewRatingRow(sessionId, raterId, rateeId, likeStatus, feedbackText) ==
  [session_id |-> sessionId, rater_id |-> raterId.v,
   ratee_id |-> rateeId.v,
   like_status |-> IF likeStatus[1] = "null" THEN Null ELSE <<likeStatus[1] = "true">>,
   feedback_text |-> OrNull(feedbackText)]

\* Validation and the SELECT of the session's status.
RateSelect(limit, userId, sessionId, raterId, rateeId, likeStatus, feedbackText) ==
  LET r == [NewReq EXCEPT !.op = "rate", !.userId = userId, !.sessionId = sessionId.v,
                           !.raterId = raterId, !.rateeId = rateeId,
                           !.likeStatus = likeStatus, !.feedbackText = feedbackText]
  IN
  /\ CanStart(limit)
  /\ UNCHANGED catalogue
  /\ IF RateMissingFields(sessionId, raterId, rateeId, likeStatus)
       THEN Return(r, 400)
     ELSE IF raterId = rateeId
       THEN Return(r, 400)
     ELSE IF sessionId.v \notin SessionIds
       THEN Return(r, 404)
     ELSE LET r2 == [r EXCEPT !.currentStatus = Sessions[sessionId.v].status]
          IN IF ~RateStatusOk(Sessions[sessionId.v].status)
               THEN Return(r2, 403)
               ELSE Await(r2, "rate_insert")
  /\ UNCHANGED <<Sessions, Ratings, next_session_id>>

\* The INSERT and the response: 201, 409 on the unique violation, 500 on
\* any other database error (a null like_status, the CHECK, a foreign key).
RateInsert(r) ==
  LET row == NewRatingRow(r.sessionId, r.raterId, r.rateeId,
                          r.likeStatus, r.feedbackText)
  IN
  /\ r.pc = "rate_insert"
  /\ UNCHANGED catalogue
  /\ IF ~RatingsCheckOk(row)
       THEN /\ Ratings' = Ratings
            /\ Finish(r, 500)
     ELSE IF RatingsUniqueViolation(r.sessionId)
       THEN /\ Ratings' = Ratings
            /\ Finish(r, 409)
     ELSE IF ~RatingsForeignKeysOk(row)
       THEN /\ Ratings' = Ratings
            /\ Finish(r, 500)
     ELSE /\ Ratings' = Ratings (+) SetToBag({row})
          /\ Finish(r, 201)
  /\ UNCHANGED <<Sessions, next_session_id>>

\* ---- GET /api/user/ratings/:id ---------------------------------------------
\* The number of rows of the bag `rows` that are among `selected`.
CountRows(rows, selected) ==
  BagCardinality([x \in selected \cap BagToSet(rows) |-> rows[x]])

\* The row returned by the aggregate query: COUNT is a bigint, which the
\* driver returns as a decimal string ("0" over no rows); SUM is a bigint
\* returned as a decimal string, and NULL over no rows.
SummaryQuery(id) ==
  LET received == {rt \in BagToSet(Ratings) : rt.ratee_id = id}
      liked == {rt \in received : rt.like_status = <<TRUE>>}
  IN [total_ratings_received |-> JStr(CountRows(Ratings, received)),
      total_likes |-> IF received = {}
                        THEN JNull
                        ELSE JStr(CountRows(Ratings, liked))]

\* `if (!ratingSummary.total_ratings_received)`: both fields become the
\* number 0 when the count is falsy.
SummaryOrZeros(row) ==
  IF ~TruthyId(row.total_ratings_received)
    THEN [total_ratings_received |-> JNum(0), total_likes |-> JNum(0)]
    ELSE row

\* The handler: one query, the substitution, the response.  The route is not
\* behind isAuthenticated: no user acts.
RatingSummary(limit, id) ==
  /\ CanStart(limit)
  /\ UNCHANGED catalogue
  /\ response' = [op |-> "summary", userId |-> 0, sessionId |-> 0, status |-> 200,
                  id |-> id, ratings |-> <<SummaryOrZeros(SummaryQuery(id))>>,
                  sessions |-> {}]
  /\ UNCHANGED <<Sessions, Ratings, next_session_id, pending>>

\* ---- GET /api/sessions/user/:id --------------------------------------------
\* Faulty variant: only the sessions the user provides.
UserSessionsWhere_ProviderOnly(row, id) == row.provider_id = id

\* WHERE clause of the session history query.
UserSessionsWhere(row, id) == row.provider_id = id \/ row.requester_id = id

\* The rows of the session history query for user id, as JSON: the selected
\* columns of the user's sessions, LEFT JOINed with the Ratings.  The names
\* joined from Users and Skills are left out, and so is the order of the rows.
UserSessionsQuery(id) ==
  {[session_id |-> Sessions[s].session_id,
    session_date_time |-> TimestampJson(Sessions[s].session_date_time),
    location_type |-> Sessions[s].location_type,
    status |-> Sessions[s].status,
    meeting_url |-> Sessions[s].meeting_url,
    provider_id |-> Sessions[s].provider_id,
    requester_id |-> Sessions[s].requester_id,
    is_rated |-> (\E rt \in BagToSet(Ratings) : rt.session_id = s)] :
     s \in {x \in SessionIds : UserSessionsWhere(Sessions[x], id)}}

\* The handler: one query and the response.
UserSessions(limit, userId, id) ==
  /\ CanStart(limit)
  /\ UNCHANGED catalogue
  /\ response' = [op |-> "sessions", userId |-> userId, sessionId |-> 0, status |-> 200,
                  id |-> id, ratings |-> Absent, sessions |-> UserSessionsQuery(id)]
  /\ UNCHANGED <<Sessions, Ratings, next_session_id, pending>>

\* ---- the administrator's requests and the audit trail ----------------------
\* isAdmin lets a request through when the session's user carries the isAdmin
\* flag; the last account registered before the run is the administrator's.
Admins == {MaxUser}

\* The local variables of a handler that works on the accounts, the skill
\* catalogue or the suggestions: the id of its URL or body, the texts it
\* carries, and the skill_id its INSERT has drawn from the sequence.
NewCatalogueReq ==
  [op |-> "none", pc |-> "start", userId |-> 0, sessionId |-> 0,
   id |-> 0, skillName |-> "", email |-> "", dateOfBirth |-> "", skillId |-> 0]

\* The handler whose locals are r goes on to its next statement as r2.
Goto(r, r2) ==
  /\ pending' = (pending (-) SetToBag({r})) (+) SetToBag({r2})
  /\ response' = NoResponse

\* INSERT INTO Admin_Logs: admin_id REFERENCES Users(user_id), so the audit
\* row of an administrator whose account is gone raises error 23503.
AdminLogOk(adminId) == adminId \in DOMAIN Users

\* The rows of Sessions that survive ON DELETE CASCADE once the Users and the
\* Skills tables hold the ids `users` and `skills`.
CascadeSessions(users, skills) ==
  [s \in {x \in SessionIds : /\ Sessions[x].provider_id \in users
                             /\ Sessions[x].requester_id \in users
                             /\ Sessions[x].skill_taught_id \in skills}
     |-> Sessions[s]]

\* The rows of Ratings that survive ON DELETE CASCADE once the Users table
\* holds `users` and the Sessions table the sessions `sessions`.
CascadeRatings(users, sessions) ==
  [rt \in {x \in BagToSet(Ratings) : /\ x.session_id \in sessions
                                     /\ x.rater_id \in users
                                     /\ x.ratee_id \in users}
     |-> Ratings[rt]]

\* The rows of the two skill lists that survive ON DELETE CASCADE.
CascadeUserSkills(users, skills) ==
  [list \in SkillLists |->
     {row \in User_Skills[list] : row.user_id \in users /\ row.skill_id \in skills}]

\* ---- DELETE /api/admin/users/:id ----------------------------------------------
\* isAdmin and DELETE FROM Users WHERE user_id = $1 RETURNING ...: the
\* statement is committed on its own, with the rows that cascade from it;
\* without a row the handler answers 404.
DeleteUser(limit, adminId, id) ==
  LET req == [NewCatalogueReq EXCEPT !.op = "deleteUser", !.userId = adminId, !.id = id]
      users == [u \in DOMAIN Users \ {id} |-> Users[u]]
      sessions == CascadeSessions(DOMAIN users, DOMAIN Skills)
  IN
  /\ CanStart(limit)
  /\ UNCHANGED <<next_user_id, skillCatalogue, suggestions, next_user_skill_id,
                 clients, next_session_id>>
  /\ IF adminId \notin Admins
       THEN Return(req, 403) /\ UNCHANGED <<Users, User_Skills, Sessions, Ratings>>
     ELSE IF id \notin DOMAIN Users
       THEN Return(req, 404) /\ UNCHANGED <<Users, User_Skills, Sessions, Ratings>>
     ELSE /\ Users' = users
          /\ Sessions' = sessions
          /\ Ratings' = CascadeRatings(DOMAIN users, DOMAIN sessions)
          /\ User_Skills' = CascadeUserSkills(DOMAIN users, DOMAIN Skills)
          /\ Await(req, "delete_user_log")

\* The audit row, a statement of its own after the DELETE, and the
\* response: 200, or the catch block's 500 when the audit row is refused.
DeleteUserLog(r) ==
  /\ r.pc = "delete_user_log"
  /\ UNCHANGED <<catalogue, lifecycle>>
  /\ Finish(r, IF AdminLogOk(r.userId) THEN 200 ELSE 500)

\* ---- DELETE /api/skills/:id ---------------------------------------------------
\* isAdmin and DELETE FROM Skills WHERE skill_id = $1 RETURNING skill_id.
DeleteSkill(limit, adminId, id) ==
  LET req == [NewCatalogueReq EXCEPT !.op = "deleteSkill", !.userId = adminId, !.id = id]
      skills == [k \in DOMAIN Skills \ {id} |-> Skills[k]]
      sessions == CascadeSessions(DOMAIN Users, DOMAIN skills)
  IN
  /\ CanStart(limit)
  /\ UNCHANGED <<accounts, next_skill_id, suggestions, next_user_skill_id,
                 clients, next_session_id>>
  /\ IF adminId \notin Admins
       THEN Return(req, 403) /\ UNCHANGED <<Skills, User_Skills, Sessions, Ratings>>
     ELSE IF id \notin DOMAIN Skills
       THEN Return(req, 404) /\ UNCHANGED <<Skills, User_Skills, Sessions, Ratings>>
     ELSE /\ Skills' = skills
          /\ Sessions' = sessions
          /\ Ratings' = CascadeRatings(DOMAIN Users, DOMAIN sessions)
          /\ User_Skills' = CascadeUserSkills(DOMAIN Users, DOMAIN skills)
          /\ Await(req, "delete_skill_log")

\* The audit row and the response.
DeleteSkillLog(r) ==
  /\ r.pc = "delete_skill_log"
  /\ UNCHANGED <<catalogue, lifecycle>>
  /\ Finish(r, IF AdminLogOk(r.userId) THEN 200 ELSE 500)

\* ---- POST /api/register -------------------------------------------------------
\* if (!email || !password || !userName || !dateOfBirth)
RegisterMissingFields(email, password, userName, dateOfBirth) ==
  ~Truthy(email) \/ ~Truthy(password) \/ ~Truthy(userName) \/ ~Truthy(dateOfBirth)

\* The DATE column takes the text of a calendar date and refuses any other
\* (error 22007 or 22008), of the texts the requests supply.
DateInputOk(text) ==
  CASE text = "2009-04-12" -> TRUE
    [] text = "2009-02-30" -> FALSE
    [] text = "next spring" -> FALSE

\* Validation and SELECT user_id FROM Users WHERE email = $1; a request is
\* taken up while the SERIAL sequence of the accounts is within limit.userIds.
RegisterSelect(limit, email, password, userName, dateOfBirth) ==
  LET req == [NewCatalogueReq EXCEPT !.op = "register",
                !.email = IF email = Absent THEN "" ELSE email[1],
                !.dateOfBirth = IF dateOfBirth = Absent THEN "" ELSE dateOfBirth[1]]
  IN
  /\ CanStart(limit)
  /\ next_user_id <= limit.userIds
  /\ UNCHANGED <<catalogue, lifecycle>>
  /\ IF RegisterMissingFields(email, password, userName, dateOfBirth)
       THEN Return(req, 400)
     ELSE IF \E u \in DOMAIN Users : Users[u] = email[1]
       THEN Return(req, 409)
     ELSE Await(req, "register_hash")

\* await bcrypt.hash(password, saltRounds): no statement reaches the database.
RegisterHash(r) ==
  /\ r.pc = "register_hash"
  /\ UNCHANGED <<catalogue, lifecycle>>
  /\ Goto(r, [r EXCEPT !.pc = "register_insert"])

\* INSERT INTO Users (...) RETURNING ...: a date text the DATE column refuses
\* fails the statement before a row is formed; email is UNIQUE, and the
\* SERIAL value is consumed whether or not the row goes in.
RegisterInsert(r) ==
  /\ r.pc = "register_insert"
  /\ UNCHANGED <<skillCatalogue, suggestions, skillLists, clients, lifecycle>>
  /\ IF ~DateInputOk(r.dateOfBirth)
       THEN UNCHANGED accounts /\ Finish(r, 500)
     ELSE /\ next_user_id' = next_user_id + 1
          /\ IF \E u \in DOMAIN Users : Users[u] = r.email
               THEN Users' = Users /\ Finish(r, 500)
               ELSE /\ Users' = [u \in DOMAIN Users \cup {next_user_id} |->
                                   IF u = next_user_id THEN r.email ELSE Users[u]]
                    /\ Finish(r, 201)

\* ---- POST /api/skills and PUT /api/skills/:id --------------------------------

\* lower(text), of the names the requests and the seeded tables carry.
LowerCase(name) ==
  CASE name = "Guitar" -> "guitar"
    [] name = "Piano" -> "piano"
    [] name = "Chess" -> "chess"
    [] name = "Yoga" -> "yoga"
    [] name = "Violin" -> "violin"
    [] name = "Skill" -> "skill"
    [] OTHER -> name

\* text ILIKE pattern: the pattern "%" matches every text; a pattern without
\* a wildcard matches the texts equal to it up to the case of the letters.
ILike(text, pattern) == pattern = "%" \/ LowerCase(text) = LowerCase(pattern)

\* The skill names that transactions in flight other than r's have inserted
\* and not yet committed: a statement that writes one of them waits for that
\* transaction to end. A transaction one of whose statements has failed is
\* aborted there and then, and its insertion is dead.
UncommittedNames(r) ==
  {o.skillName : o \in {x \in BagToSet(pending) \ {r} :
                          /\ x.op = "suggestionAction"
                          /\ x.inserted
                          /\ x.pc # "action_rollback"}}

\* skill_name VARCHAR(50): a name longer than the column is refused (22001)
\* when the statement is planned with the values bound to it, before it
\* draws a SERIAL, reads a row or waits for a lock.
SkillNameTooLong(name) == Len(name) > 50

\* isAdmin, validation and SELECT skill_id FROM Skills WHERE skill_name ILIKE $1;
\* a request is taken up while the sequence of the skills is within
\* limit.skillIds.
CreateSkillSelect(limit, adminId, skillName) ==
  LET req == [NewCatalogueReq EXCEPT !.op = "createSkill", !.userId = adminId,
                !.skillName = IF skillName = Absent THEN "" ELSE skillName[1]]
  IN
  /\ CanStart(limit)
  /\ next_skill_id <= limit.skillIds
  /\ UNCHANGED <<catalogue, lifecycle>>
  /\ IF adminId \notin Admins
       THEN Return(req, 403)
     ELSE IF ~Truthy(skillName)
       THEN Return(req, 400)
     ELSE IF \E k \in DOMAIN Skills : ILike(Skills[k], skillName[1])
       THEN Return(req, 409)
     ELSE Await(req, "create_skill_insert")

\* The row of the INSERT reaches the unique index: the statement fails (the
\* catch block answers 500) or the row is stored, committed on its own. r
\* holds the handler's locals before the statement, r2 with the id drawn.
CreateSkillStore(r, r2) ==
  IF \E k \in DOMAIN Skills : Skills[k] = r2.skillName
    THEN Skills' = Skills /\ Finish(r, 500)
    ELSE /\ Skills' = [k \in DOMAIN Skills \cup {r2.skillId} |->
                         IF k = r2.skillId THEN r2.skillName ELSE Skills[k]]
         /\ Goto(r, [r2 EXCEPT !.pc = "create_skill_log"])

\* INSERT INTO Skills (skill_name) VALUES ($1) RETURNING skill_id, skill_name:
\* a name too long is refused with the sequence untouched; otherwise the
\* SERIAL value is drawn first and is consumed whether or not the row goes
\* in, and the statement waits while a transaction in flight has inserted
\* the name.
CreateSkillInsert(r) ==
  LET r2 == [r EXCEPT !.skillId = next_skill_id]
  IN
  /\ r.pc = "create_skill_insert"
  /\ UNCHANGED <<accounts, suggestions, skillLists, clients, lifecycle>>
  /\ IF SkillNameTooLong(r.skillName)
       THEN /\ UNCHANGED skillCatalogue
            /\ Finish(r, 500)
       ELSE /\ next_skill_id' = next_skill_id + 1
            /\ IF r.skillName \in UncommittedNames(r)
                 THEN /\ Skills' = Skills
                      /\ Goto(r, [r2 EXCEPT !.pc = "create_skill_insert_wait"])
                 ELSE CreateSkillStore(r, r2)

\* The INSERT goes on once the transaction it waited for has ended.
CreateSkillInsertResume(r) ==
  /\ r.pc = "create_skill_insert_wait"
  /\ r.skillName \notin UncommittedNames(r)
  /\ UNCHANGED <<accounts, next_skill_id, suggestions, skillLists, clients, lifecycle>>
  /\ CreateSkillStore(r, r)

\* The audit row and the response: 201, or the catch block's 500.
CreateSkillLog(r) ==
  /\ r.pc = "create_skill_log"
  /\ UNCHANGED <<catalogue, lifecycle>>
  /\ Finish(r, IF AdminLogOk(r.userId) THEN 201 ELSE 500)

\* isAdmin, validation and UPDATE Skills SET skill_name = $1 WHERE skill_id = $2
\* RETURNING ...: a name too long fails the statement whether or not the row
\* exists; without a row the handler answers 404; the statement waits while
\* a transaction in flight has inserted the new name, and fails on a name
\* another skill carries.
RenameSkill(limit, adminId, id, skillName) ==
  LET req == [NewCatalogueReq EXCEPT !.op = "renameSkill", !.userId = adminId, !.id = id,
                !.skillName = IF skillName = Absent THEN "" ELSE skillName[1]]
  IN
  /\ CanStart(limit)
  /\ UNCHANGED <<accounts, next_skill_id, suggestions, skillLists, clients, lifecycle>>
  /\ IF adminId \notin Admins
       THEN Return(req, 403) /\ Skills' = Skills
     ELSE IF ~Truthy(skillName)
       THEN Return(req, 400) /\ Skills' = Skills
     ELSE IF SkillNameTooLong(skillName[1])
       THEN Return(req, 500) /\ Skills' = Skills
     ELSE IF id \notin DOMAIN Skills
       THEN Return(req, 404) /\ Skills' = Skills
     ELSE /\ skillName[1] \notin UncommittedNames(req)
          /\ IF \E k \in DOMAIN Skills \ {id} : Skills[k] = skillName[1]
               THEN Return(req, 500) /\ Skills' = Skills
               ELSE /\ Skills' = [Skills EXCEPT ![id] = skillName[1]]
                    /\ Await(req, "rename_skill_log")

\* The audit row and the response.
RenameSkillLog(r) ==
  /\ r.pc = "rename_skill_log"
  /\ UNCHANGED <<catalogue, lifecycle>>
  /\ Finish(r, IF AdminLogOk(r.userId) THEN 200 ELSE 500)

\* ---- POST /api/skills/suggest -------------------------------------------------
\* if (!skillName || !userId)
SuggestMissingFields(skillName, userId) == ~Truthy(skillName) \/ ~TruthyId(userId)

\* SELECT 1 FROM Skills WHERE skill_name ILIKE $1 UNION ALL
\* SELECT 1 FROM Skill_Suggestions WHERE suggested_skill_name ILIKE $1
NameListed(skillName) ==
  \/ \E k \in DOMAIN Skills : ILike(Skills[k], skillName)
  \/ \E id \in DOMAIN Skill_Suggestions :
       ILike(Skill_Suggestions[id].suggested_skill_name, skillName)

\* Validation and the SELECT; a request is taken up while the sequence of
\* the suggestions is within limit.suggestionIds.
SuggestSelect(limit, sessionUser, skillName, userId) ==
  LET req == [NewCatalogueReq EXCEPT !.op = "suggest", !.userId = sessionUser,
                !.id = userId.v,
                !.skillName = IF skillName = Absent THEN "" ELSE skillName[1]]
  IN
  /\ CanStart(limit)
  /\ next_suggestion_id <= limit.suggestionIds
  /\ UNCHANGED <<catalogue, lifecycle>>
  /\ IF SuggestMissingFields(skillName, userId)
       THEN Return(req, 400)
     ELSE IF NameListed(skillName[1])
       THEN Return(req, 409)
     ELSE Await(req, "suggest_insert")

\* INSERT INTO Skill_Suggestions (suggested_skill_name, suggesting_user_id):
\* suggested_skill_name VARCHAR(100) UNIQUE, suggesting_user_id REFERENCES
\* Users; the status defaults to 'Pending'. A name too long is refused with
\* the sequence untouched; the unique index and the foreign key refuse the
\* row after the SERIAL value is drawn.
SuggestInsert(r) ==
  /\ r.pc = "suggest_insert"
  /\ UNCHANGED <<accounts, skillCatalogue, skillLists, clients, lifecycle>>
  /\ IF Len(r.skillName) > 100
       THEN /\ UNCHANGED suggestions
            /\ Finish(r, 500)
       ELSE /\ next_suggestion_id' = next_suggestion_id + 1
            /\ IF \/ \E id \in DOMAIN Skill_Suggestions :
                       Skill_Suggestions[id].suggested_skill_name = r.skillName
                  \/ r.id \notin DOMAIN Users
                 THEN Skill_Suggestions' = Skill_Suggestions /\ Finish(r, 500)
                 ELSE /\ Skill_Suggestions' =
                           [id \in DOMAIN Skill_Suggestions \cup {next_suggestion_id} |->
                              IF id = next_suggestion_id
                                THEN [suggested_skill_name |-> r.skillName,
                                      status |-> "Pending"]
                                ELSE Skill_Suggestions[id]]
                      /\ Finish(r, 201)

\* ---- POST /api/admin/suggestions/action ---------------------------------------
\* The local variables of the handler at its entry; skillName is read by its
\* SELECT and skillId drawn by its INSERT; inserted and updated tell which
\* writes its transaction has made and not yet committed, and error is the
\* code of the database error its catch block has caught.
NewAction ==
  [op |-> "suggestionAction", pc |-> "start", userId |-> 0, sessionId |-> 0,
   suggestionId |-> 0, action |-> "", skillName |-> "", skillId |-> 0,
   inserted |-> FALSE, updated |-> FALSE, error |-> ""]

\* if (!suggestionId || !['approve', 'reject'].includes(action))
ActionInvalid(suggestionId, action) ==
  ~TruthyId(suggestionId) \/ action \notin {"approve", "reject"}

\* SELECT ... WHERE suggestion_id = $1 AND status = 'Pending'
PendingSuggestion(suggestionId) ==
  {id \in DOMAIN Skill_Suggestions :
     id = suggestionId /\ Skill_Suggestions[id].status = "Pending"}

\* action === 'approve' ? 'Approved' : 'Rejected'
ActionStatus(action) == IF action = "approve" THEN "Approved" ELSE "Rejected"

\* isAdmin, validation and pool.connect(); a request is taken up while the
\* sequence of the skills is within limit.skillIds.
ActionConnect(limit, adminId, suggestionId, action) ==
  LET req == [NewAction EXCEPT !.userId = adminId, !.suggestionId = suggestionId.v,
                               !.action = action]
  IN
  /\ CanStart(limit)
  /\ next_skill_id <= limit.skillIds
  /\ UNCHANGED <<accounts, skillCatalogue, suggestions, skillLists, lifecycle>>
  /\ IF adminId \notin Admins
       THEN Return(req, 403) /\ clients' = clients
     ELSE IF ActionInvalid(suggestionId, action)
       THEN Return(req, 400) /\ clients' = clients
     ELSE /\ clients' = clients + 1
          /\ Await(req, "action_begin")

\* BEGIN
ActionBegin(r) ==
  /\ r.pc = "action_begin"
  /\ UNCHANGED <<catalogue, lifecycle>>
  /\ Goto(r, [r EXCEPT !.pc = "action_select"])

\* The SELECT of the pending suggestion, which takes no lock, and the branch
\* on its result and on the action.
ActionSelect(r) ==
  /\ r.pc = "action_select"
  /\ UNCHANGED <<catalogue, lifecycle>>
  /\ IF PendingSuggestion(r.suggestionId) = {}
       THEN Goto(r, [r EXCEPT !.pc = "action_not_found"])
       ELSE Goto(r, [r EXCEPT
                       !.skillName = Skill_Suggestions[r.suggestionId].suggested_skill_name,
                       !.pc = IF r.action = "approve" THEN "action_insert"
                                                      ELSE "action_update"])

\* COMMIT, the 404 and, in the finally block, client.release().
ActionNotFound(r) ==
  /\ r.pc = "action_not_found"
  /\ UNCHANGED <<accounts, skillCatalogue, suggestions, skillLists, lifecycle>>
  /\ clients' = clients - 1
  /\ Finish(r, 404)

\* The row of the INSERT reaches the unique index: on a name the Skills
\* table holds the statement raises 23505 and the handler goes to its catch
\* block; otherwise the row is inserted, visible to the transaction alone.
ActionInsertStore(r, r2) ==
  IF \E k \in DOMAIN Skills : Skills[k] = r2.skillName
    THEN Goto(r, [r2 EXCEPT !.pc = "action_rollback", !.error = "23505"])
  ELSE Goto(r, [r2 EXCEPT !.pc = "action_update", !.inserted = TRUE])

\* INSERT INTO Skills (skill_name) VALUES ($1) RETURNING skill_id: a name too
\* long raises 22001 with the sequence untouched; otherwise the SERIAL value
\* is drawn first and is consumed whether or not the row goes in, and the
\* statement waits while another transaction in flight has inserted the name.
ActionInsert(r) ==
  LET r2 == [r EXCEPT !.skillId = next_skill_id]
  IN
  /\ r.pc = "action_insert"
  /\ UNCHANGED <<accounts, Skills, suggestions, skillLists, clients, lifecycle>>
  /\ IF SkillNameTooLong(r.skillName)
       THEN /\ next_skill_id' = next_skill_id
            /\ Goto(r, [r EXCEPT !.pc = "action_rollback", !.error = "22001"])
       ELSE /\ next_skill_id' = next_skill_id + 1
            /\ IF r.skillName \in UncommittedNames(r)
                 THEN Goto(r, [r2 EXCEPT !.pc = "action_insert_wait"])
                 ELSE ActionInsertStore(r, r2)

\* The INSERT goes on once the transaction it waited for has ended.
ActionInsertResume(r) ==
  /\ r.pc = "action_insert_wait"
  /\ r.skillName \notin UncommittedNames(r)
  /\ UNCHANGED <<catalogue, lifecycle>>
  /\ ActionInsertStore(r, r)

\* The transactions in flight other than r's that have updated the
\* suggestion of r and hold its row lock until they end; a transaction one
\* of whose statements has failed holds none.
SuggestionLocked(r) ==
  \E o \in BagToSet(pending) \ {r} :
    /\ o.op = "suggestionAction"
    /\ o.updated
    /\ o.pc # "action_rollback"
    /\ o.suggestionId = r.suggestionId

\* UPDATE Skill_Suggestions SET status = $1 WHERE suggestion_id = $2: the
\* statement waits for the row lock, and its WHERE does not test the status.
ActionUpdate(r) ==
  /\ r.pc = "action_update"
  /\ ~SuggestionLocked(r)
  /\ UNCHANGED <<catalogue, lifecycle>>
  /\ Goto(r, [r EXCEPT !.pc = "action_log", !.updated = TRUE])

\* The audit row, inside the transaction: refused (23503) when the
\* administrator's account is gone.
ActionLog(r) ==
  /\ r.pc = "action_log"
  /\ UNCHANGED <<catalogue, lifecycle>>
  /\ IF AdminLogOk(r.userId)
       THEN Goto(r, [r EXCEPT !.pc = "action_commit"])
       ELSE Goto(r, [r EXCEPT !.pc = "action_rollback", !.error = "23503"])

\* COMMIT, which makes the writes of the transaction visible at once, the
\* 200 and client.release().
ActionCommit(r) ==
  /\ r.pc = "action_commit"
  /\ UNCHANGED <<accounts, next_skill_id, next_suggestion_id, skillLists, lifecycle>>
  /\ clients' = clients - 1
  /\ Skill_Suggestions' =
       [Skill_Suggestions EXCEPT ![r.suggestionId].status = ActionStatus(r.action)]
  /\ Skills' = IF r.inserted
                 THEN [k \in DOMAIN Skills \cup {r.skillId} |->
                         IF k = r.skillId THEN r.skillName ELSE Skills[k]]
                 ELSE Skills
  /\ Finish(r, 200)

\* The catch block: ROLLBACK, then 409 for a unique violation under
\* 'approve' and 500 for any other error; finally client.release().
ActionRollback(r) ==
  /\ r.pc = "action_rollback"
  /\ UNCHANGED <<accounts, skillCatalogue, suggestions, skillLists, lifecycle>>
  /\ clients' = clients - 1
  /\ Finish(r, IF r.error = "23505" /\ r.action = "approve" THEN 409 ELSE 500)

\* ---- POST /api/user/skills/offer and POST /api/user/skills/seek ---------------
\* The local variables of a list replacement at its entry: the table it
\* works on, the body's userId and skills (absent, or <<the array>>); the
\* rows its DELETE is still to visit, the rows its transaction has deleted
\* and the rows it has inserted, none of them committed yet; the number of
\* INSERT statements it has sent, and the user_skill_id drawn for the one
\* that waits.
NewReplace ==
  [op |-> "replaceSkills", pc |-> "start", userId |-> 0, sessionId |-> 0,
   list |-> "", targetId |-> JUndef, skills |-> Absent,
   snapshot |-> {}, deleted |-> {}, inserted |-> {}, sent |-> 0, rowId |-> 0]

\* if (!userId || !Array.isArray(skills))
ReplaceMissingFields(userId, skills) == ~TruthyId(userId) \/ skills = Absent

\* if (!skill.skillId) return null;  ...  .filter(q => q !== null)
CarriesSkillId(skill) == TruthyId(skill.skillId)

\* `skill.isVirtualOnly || false` on an optional boolean.
OrFalse(o) == IF o # Absent /\ o[1] = TRUE THEN TRUE ELSE FALSE

\* The values the INSERT statements of a replacement carry, in their order.
NewSkillRows(userId, skills) ==
  LET kept == SelectSeq(skills, CarriesSkillId)
  IN [i \in 1..Len(kept) |->
        [user_id |-> userId.v, skill_id |-> kept[i].skillId.v,
         is_virtual_only |-> OrFalse(kept[i].isVirtualOnly),
         is_inperson_only |-> OrFalse(kept[i].isInPersonOnly)]]

\* The row an INSERT stores: its values under the user_skill_id drawn.
StoredSkillRow(id, values) ==
  [user_skill_id |-> id, user_id |-> values.user_id, skill_id |-> values.skill_id,
   is_virtual_only |-> values.is_virtual_only,
   is_inperson_only |-> values.is_inperson_only]

\* UNIQUE (user_id, skill_id)
SameKey(a, b) == a.user_id = b.user_id /\ a.skill_id = b.skill_id

\* The other transactions in flight on the table of r. A transaction one of
\* whose statements has failed is aborted there and then: its writes are
\* dead and its locks released before the handler sends ROLLBACK.
OtherReplacements(r) ==
  {o \in BagToSet(pending) \ {r} :
     o.op = "replaceSkills" /\ o.list = r.list /\ o.pc # "replace_rollback"}

\* The rows other transactions in flight have deleted: each holds the lock
\* of its rows until it ends.
LockedByOthers(r) == UNION {o.deleted : o \in OtherReplacements(r)}

\* isAuthenticated, validation and pool.connect(); a request is taken up
\* while the sequence of the table is within limit.listRows.
ReplaceConnect(limit, list, sessionUser, userId, skills) ==
  LET req == [NewReplace EXCEPT !.userId = sessionUser, !.list = list,
                                !.targetId = userId, !.skills = skills]
  IN
  /\ CanStart(limit)
  /\ next_user_skill_id[list] <= limit.listRows
  /\ UNCHANGED <<accounts, skillCatalogue, suggestions, skillLists, lifecycle>>
  /\ IF ReplaceMissingFields(userId, skills)
       THEN Return(req, 400) /\ clients' = clients
       ELSE /\ clients' = clients + 1
            /\ Await(req, "replace_begin")

\* BEGIN
ReplaceBegin(r) ==
  /\ r.pc = "replace_begin"
  /\ UNCHANGED <<catalogue, lifecycle>>
  /\ Goto(r, [r EXCEPT !.pc = "replace_delete"])

\* The DELETE visits the rows of its snapshot in the order of the table: a
\* row a committed transaction has deleted meanwhile is skipped, a row no
\* other transaction has locked is deleted, and at the first row another
\* transaction in flight has deleted the statement waits. The result is the
\* rows deleted and the rows still to visit.
RECURSIVE DeleteScan(_, _, _)
DeleteScan(rows, stored, locked) ==
  IF rows = {}
    THEN [deleted |-> {}, snapshot |-> {}]
    ELSE LET first == CHOOSE row \in rows :
                        \A o \in rows : row.user_skill_id <= o.user_skill_id
         IN IF first \in locked
              THEN [deleted |-> {}, snapshot |-> rows]
              ELSE LET rest == DeleteScan(rows \ {first}, stored, locked)
                   IN [deleted |-> (IF first \in stored THEN {first} ELSE {})
                                     \cup rest.deleted,
                       snapshot |-> rest.snapshot]

\* After its DELETE the handler sends its INSERTs, or COMMIT when no entry
\* of the array carries a skillId.
AfterDelete(r) ==
  IF Len(NewSkillRows(r.targetId, r.skills[1])) = 0
    THEN "replace_commit" ELSE "replace_insert"

\* The state of the DELETE after a scan of `rows`.
Scanned(r, rows) ==
  LET scan == DeleteScan(rows, User_Skills[r.list], LockedByOthers(r))
  IN [r EXCEPT !.deleted = r.deleted \cup scan.deleted,
               !.snapshot = scan.snapshot,
               !.pc = IF scan.snapshot = {} THEN AfterDelete(r)
                                            ELSE "replace_delete_wait"]

\* DELETE FROM <list> WHERE user_id = $1: the statement sees the rows
\* committed when it starts.
ReplaceDelete(r) ==
  /\ r.pc = "replace_delete"
  /\ UNCHANGED <<catalogue, lifecycle>>
  /\ Goto(r, Scanned(r, {row \in User_Skills[r.list] : row.user_id = r.targetId.v}))

\* The transactions in flight an INSERT of `values` waits for: those that
\* have inserted a row of its key, and those that have deleted a stored row
\* of its key.
InsertWaitsFor(r, values) ==
  {o \in OtherReplacements(r) :
     \/ \E row \in o.inserted : SameKey(row, values)
     \/ \E row \in o.deleted : SameKey(row, values)}

\* The values of the INSERT the handler sends next.
NextValues(r) == NewSkillRows(r.targetId, r.skills[1])[r.sent + 1]

\* The transactions in flight a DELETE that waits is waiting for: the one
\* that has deleted the row the scan has stopped at.
DeleteWaitsFor(r) ==
  {o \in OtherReplacements(r) :
     \E row \in o.deleted \cap r.snapshot :
       \A other \in r.snapshot : row.user_skill_id <= other.user_skill_id}

\* The transactions the statement of r waits for.
WaitsFor(r) ==
  IF r.pc = "replace_insert_wait" THEN InsertWaitsFor(r, NextValues(r))
  ELSE IF r.pc = "replace_delete_wait" THEN DeleteWaitsFor(r)
  ELSE {}

\* Some chain of at most n waits leads from the transaction `from` to `to`.
RECURSIVE WaitChain(_, _, _)
WaitChain(from, to, n) ==
  /\ n > 0
  /\ \E o \in WaitsFor(from) : o = to \/ WaitChain(o, to, n - 1)

\* The statement of r waits in a cycle of waits: the database ends the wait
\* of one transaction of the cycle with error 40P01.
Deadlocked(r) == WaitChain(r, r, BagCardinality(pending))

\* The DELETE goes on once the row it waits for is unlocked, and does not see
\* the rows committed since it started; or it fails when the database has
\* found it in a deadlock.
ReplaceDeleteResume(r) ==
  /\ r.pc = "replace_delete_wait"
  /\ DeleteWaitsFor(r) = {} \/ Deadlocked(r)
  /\ UNCHANGED <<catalogue, lifecycle>>
  /\ IF DeleteWaitsFor(r) # {}
       THEN Goto(r, [r EXCEPT !.pc = "replace_rollback"])
       ELSE Goto(r, Scanned(r, r.snapshot))

\* The INSERT fails: UNIQUE (user_id, skill_id), against a row of the same
\* transaction or a stored row the transaction has not deleted, or one of
\* the two foreign keys.
InsertRefused(r, values) ==
  \/ \E row \in r.inserted : SameKey(row, values)
  \/ \E row \in User_Skills[r.list] \ r.deleted : SameKey(row, values)
  \/ values.user_id \notin DOMAIN Users
  \/ values.skill_id \notin DOMAIN Skills

\* The outcome of an INSERT whose wait is over: on an error (the deadlock
\* of a statement still waiting included) Promise.all rejects and the
\* handler goes to its catch block; otherwise the row is inserted, visible
\* to the transaction alone, and after the last INSERT the handler goes on
\* to COMMIT. r holds the locals before the step, r2 with the id drawn.
ReplaceInsertStore(r, r2) ==
  LET values == NextValues(r2)
      rows == NewSkillRows(r2.targetId, r2.skills[1])
  IN IF InsertWaitsFor(r, values) # {} \/ InsertRefused(r2, values)
       THEN Goto(r, [r2 EXCEPT !.pc = "replace_rollback"])
       ELSE Goto(r, [r2 EXCEPT
                       !.inserted = r2.inserted \cup {StoredSkillRow(r2.rowId, values)},
                       !.sent = r2.sent + 1,
                       !.pc = IF r2.sent + 1 = Len(rows) THEN "replace_commit"
                                                         ELSE "replace_insert"])

\* INSERT INTO <list> (user_id, skill_id, is_virtual_only, is_inperson_only):
\* the queries queued on the client are sent one after the other. The
\* user_skill_id is drawn first and is consumed whether or not the row goes
\* in; the statement waits for the transactions of InsertWaitsFor.
ReplaceInsert(r) ==
  LET r2 == [r EXCEPT !.rowId = next_user_skill_id[r.list]]
  IN
  /\ r.pc = "replace_insert"
  /\ UNCHANGED <<accounts, skillCatalogue, suggestions, User_Skills, clients, lifecycle>>
  /\ next_user_skill_id' = [next_user_skill_id EXCEPT ![r.list] = @ + 1]
  /\ IF InsertWaitsFor(r, NextValues(r)) # {}
       THEN Goto(r, [r2 EXCEPT !.pc = "replace_insert_wait"])
       ELSE ReplaceInsertStore(r, r2)

\* The INSERT goes on once the transactions it waited for have ended, or
\* fails when the database has found it in a deadlock.
ReplaceInsertResume(r) ==
  /\ r.pc = "replace_insert_wait"
  /\ InsertWaitsFor(r, NextValues(r)) = {} \/ Deadlocked(r)
  /\ UNCHANGED <<catalogue, lifecycle>>
  /\ ReplaceInsertStore(r, r)

\* COMMIT makes the deletions and the insertions of the transaction visible
\* at once; then the 200 and, in the finally block, client.release().
ReplaceCommit(r) ==
  /\ r.pc = "replace_commit"
  /\ UNCHANGED <<accounts, skillCatalogue, suggestions, next_user_skill_id, lifecycle>>
  /\ clients' = clients - 1
  /\ User_Skills' = [User_Skills EXCEPT ![r.list] = (@ \ r.deleted) \cup r.inserted]
  /\ Finish(r, 200)

\* The catch block: the INSERTs still queued are refused by the aborted
\* transaction, whose writes are undone already; ROLLBACK closes it, the
\* handler answers 500 and releases its connection.
ReplaceRollback(r) ==
  /\ r.pc = "replace_rollback"
  /\ UNCHANGED <<accounts, skillCatalogue, suggestions, skillLists, lifecycle>>
  /\ clients' = clients - 1
  /\ Finish(r, 500)

\* ---- specifications ----------------------------------------------------------
\* Requests of every shape: any user confirms, denies or completes, and the
\* bodies may be incomplete or malformed.
AllInputs ==
  [requestUsers |-> {1, 2}, confirmUsers |-> UserIds, denyUsers |-> UserIds,
   completeUsers |-> UserIds, rateUsers |-> {1, 2},
   requestBodies |-> RequestBodies, sessionIds |-> SessionIdInputs,
   urls |-> UrlInputs, reasons |-> ReasonInputs, rateBodies |-> RateBodies,
   summaryIds |-> UserIds, historyUsers |-> {1, 2}, historyIds |-> UserIds]

\* The well-formed requests of a session's two participants: the requester
\* asks for an in-person session and rates it, the provider confirms (with or
\* without a meeting URL) and completes, either of them denies or cancels.
ParticipantInputs ==
  [requestUsers |-> {2}, confirmUsers |-> {1}, denyUsers |-> {1, 2},
   completeUsers |-> {1}, rateUsers |-> {2},
   requestBodies |-> {b \in FullRequestBodies :
                        b.locationType = <<"InPerson">> /\ b.meetingUrl = Absent},
   sessionIds |-> {JNum(s) : s \in 1..MaxSessions},
   urls |-> {Absent, <<ShortUrl>>},
   reasons |-> {Absent},
   rateBodies |-> FullRateBodies,
   summaryIds |-> {1}, historyUsers |-> {2}, historyIds |-> {2}]

Request(limit, in) ==
  \E userId \in in.requestUsers, body \in in.requestBodies :
    RequestSession(limit, userId, body.requesterId, body.providerId, body.skillTaughtId,
                   body.sessionDateTime, body.locationType, body.meetingUrl)

ConfirmStart(limit, in) ==
  \E userId \in in.confirmUsers, sessionId \in in.sessionIds, meetingUrl \in in.urls :
    ConfirmSelect(limit, userId, sessionId, meetingUrl)

DenyStart(limit, in) ==
  \E userId \in in.denyUsers, sessionId \in in.sessionIds, reason \in in.reasons :
    DenySelect(limit, userId, sessionId, reason)

Complete(limit, in) ==
  \E userId \in in.completeUsers, sessionId \in in.sessionIds :
    CompleteSession(limit, userId, sessionId)

RateStart(limit, in) ==
  \E userId \in in.rateUsers, body \in in.rateBodies :
    RateSelect(limit, userId, body.sessionId, body.raterId, body.rateeId,
               body.likeStatus, body.feedbackText)

\* A new request is taken up while fewer than `limit` are being handled, or a
\* pending handler runs its next database statement.
Summary(limit, in) ==
  \E id \in in.summaryIds : RatingSummary(limit, id)

History(limit, in) ==
  \E userId \in in.historyUsers, id \in in.historyIds : UserSessions(limit, userId, id)

Step(limit, in) ==
  \/ Request(limit, in)
  \/ ConfirmStart(limit, in)
  \/ DenyStart(limit, in)
  \/ Complete(limit, in)
  \/ RateStart(limit, in)
  \/ Summary(limit, in)
  \/ History(limit, in)
  \/ \E r \in BagToSet(pending) :
       \/ ConfirmUpdate(r)
       \/ DenyUpdate(r)
       \/ RateInsert(r)

\* Requests handled one at a time: each request is handled to its response
\* before the next is taken up.
Next == Step(OneAtATime, AllInputs)

Spec == Init /\ [][Next]_vars

\* Requests handled concurrently: the database statements of up to
\* MaxInFlight handlers interleave.
ConcNext == Step(Interleaved, ParticipantInputs)

ConcSpec == Init /\ [][ConcNext]_vars

\* Requests handled concurrently, the confirm sent by the provider and by
\* the requester alike (without a meeting URL): the statements of up to
\* MaxInFlight handlers interleave.
OrderSpec ==
  Init /\ [][Step(Interleaved, [ParticipantInputs EXCEPT !.confirmUsers = {1, 2},
                                                         !.urls = {Absent}])]_vars

\* The well-formed requests of the participants, on one session more.
SeveralInputs ==
  [ParticipantInputs EXCEPT
     !.sessionIds = {JNum(s) : s \in 1..(MaxSessions + 1)},
     !.rateBodies = {[BaseRateBody(s) EXCEPT !.likeStatus = <<"true">>] :
                       s \in 1..(MaxSessions + 1)}]

\* Requests handled one at a time, on up to MaxSessions + 1 sessions.
SeveralNext == Step(SeveralSessions, SeveralInputs)

SeveralSpec == Init /\ [][SeveralNext]_vars

\* The limits of the runs below: requests interleave, and each SERIAL
\* sequence gives out a few values beyond the seeded rows.
AdminLimit ==
  [inFlight |-> MaxInFlight, sessions |-> MaxSessions,
   userIds |-> MaxUser + MaxNewUsers, skillIds |-> Len(SeedSkills) + MaxNewSkills]
ReplaceLimit == [inFlight |-> MaxInFlight, listRows |-> MaxListRows]
SuggestLimit ==
  [inFlight |-> MaxInFlight,
   skillIds |-> Len(SeedSkills) + MaxSuggestions + MaxNewSkills,
   suggestionIds |-> MaxSuggestions + MaxNewSuggestions]

\* The lifecycle of a session between users 1 and 2 with, in between, the
\* administrator's deletions of accounts and skills, a registration, and
\* the creation and the renaming of a skill, all handled concurrently.
AdminParticipantInputs ==
  [ParticipantInputs EXCEPT !.denyUsers = {2}, !.urls = {Absent}]

RegisterBody(email, dateOfBirth) ==
  [email |-> email, password |-> <<"s3cret">>, userName |-> <<"Eve">>,
   dateOfBirth |-> dateOfBirth]

AdminInputs ==
  [adminUsers |-> {2, MaxUser}, userIds |-> {1, MaxUser},
   skillIds |-> {1, Len(SeedSkills) + 1},
   skillNames |-> {Absent, <<"Chess">>, <<"guitar">>},
   newNames |-> {Absent, <<"Violin">>, <<"Piano">>},
   registerBodies |->
     {RegisterBody(<<"eve@calkins.edu">>, <<"2009-04-12">>),
      RegisterBody(<<"eve@calkins.edu">>, <<"2009-02-30">>),
      RegisterBody(<<SeedEmail(1)>>, <<"2009-04-12">>),
      [RegisterBody(<<"eve@calkins.edu">>, <<"2009-04-12">>) EXCEPT !.password = Absent]}]

AdminDeleteUser(limit, in) ==
  \E adminId \in in.adminUsers, id \in in.userIds : DeleteUser(limit, adminId, id)

AdminDeleteSkill(limit, in) ==
  \E adminId \in in.adminUsers, id \in in.skillIds : DeleteSkill(limit, adminId, id)

Register(limit, in) ==
  \E body \in in.registerBodies :
    RegisterSelect(limit, body.email, body.password, body.userName, body.dateOfBirth)

CreateSkill(limit, in) ==
  \E adminId \in in.adminUsers, skillName \in in.skillNames :
    CreateSkillSelect(limit, adminId, skillName)

AdminRenameSkill(limit, in) ==
  \E adminId \in in.adminUsers, id \in in.skillIds, skillName \in in.newNames :
    RenameSkill(limit, adminId, id, skillName)

AdminNext ==
  \/ Step(AdminLimit, AdminParticipantInputs)
  \/ AdminDeleteUser(AdminLimit, AdminInputs)
  \/ AdminDeleteSkill(AdminLimit, AdminInputs)
  \/ Register(AdminLimit, AdminInputs)
  \/ CreateSkill(AdminLimit, AdminInputs)
  \/ AdminRenameSkill(AdminLimit, AdminInputs)
  \/ \E r \in BagToSet(pending) : DeleteUserLog(r)
  \/ \E r \in BagToSet(pending) : DeleteSkillLog(r)
  \/ \E r \in BagToSet(pending) : RegisterHash(r)
  \/ \E r \in BagToSet(pending) : RegisterInsert(r)
  \/ \E r \in BagToSet(pending) : CreateSkillInsert(r)
  \/ \E r \in BagToSet(pending) : CreateSkillLog(r)
  \/ \E r \in BagToSet(pending) : RenameSkillLog(r)

AdminSpec == Init /\ [][AdminNext]_vars

\* The skills arrays of the replacement requests: entries for the two seeded
\* skills, in either order, for a skill id that does not exist, and without
\* a skillId.
SkillEntry(id) == [skillId |-> id, isVirtualOnly |-> Absent, isInPersonOnly |-> Absent]
SkillsInputs ==
  {Absent, <<<<>>>>,
   <<<<[SkillEntry(JNum(1)) EXCEPT !.isVirtualOnly = <<TRUE>>]>>>>,
   <<<<SkillEntry(JNum(2))>>>>,
   <<<<SkillEntry(JNum(1)), SkillEntry(JNum(1))>>>>,
   <<<<SkillEntry(JNum(1)), SkillEntry(JNum(2))>>>>,
   <<<<SkillEntry(JNum(2)), SkillEntry(JNum(1))>>>>,
   <<<<SkillEntry(JNum(2)), SkillEntry(JNum(Len(SeedSkills) + 1))>>>>,
   <<<<SkillEntry(JNum(2)), SkillEntry(JUndef)>>>>}

ReplaceInputs ==
  [users |-> {1}, lists |-> SkillLists, userIds |-> {JNum(1), JUndef},
   skills |-> SkillsInputs]

Replace(limit, in) ==
  \E list \in in.lists, sessionUser \in in.users, userId \in in.userIds,
     skills \in in.skills :
    ReplaceConnect(limit, list, sessionUser, userId, skills)

\* The replacements of the skill lists, handled concurrently: the statements
\* of up to MaxInFlight transactions interleave.
ReplaceNext ==
  \/ Replace(ReplaceLimit, ReplaceInputs)
  \/ \E r \in BagToSet(pending) : ReplaceBegin(r)
  \/ \E r \in BagToSet(pending) : ReplaceDelete(r)
  \/ \E r \in BagToSet(pending) : ReplaceDeleteResume(r)
  \/ \E r \in BagToSet(pending) : ReplaceInsert(r)
  \/ \E r \in BagToSet(pending) : ReplaceInsertResume(r)
  \/ \E r \in BagToSet(pending) : ReplaceCommit(r)
  \/ \E r \in BagToSet(pending) : ReplaceRollback(r)

ReplaceSpec == Init /\ [][ReplaceNext]_vars

\* The administrator's actions on the suggestions with, in between, the
\* creation and the renaming of a skill and a user's new suggestion, all
\* handled concurrently.
ActionInputs ==
  [adminUsers |-> {1, MaxUser},
   suggestionIds |-> {JNum(id) : id \in 1..MaxSuggestions} \cup {JUndef},
   actions |-> {"approve", "reject", "delete"},
   skillNames |-> {<<"chess">>, <<"Chess">>},
   skillIds |-> {1},
   newNames |-> {<<"Chess">>},
   suggestUsers |-> {1},
   suggestedNames |-> {Absent, <<"Violin">>, <<"%">>},
   suggestedBy |-> {JNum(1)}]

ActionStart(limit, in) ==
  \E adminId \in in.adminUsers, suggestionId \in in.suggestionIds, action \in in.actions :
    ActionConnect(limit, adminId, suggestionId, action)

Suggest(limit, in) ==
  \E sessionUser \in in.suggestUsers, skillName \in in.suggestedNames,
     userId \in in.suggestedBy :
    SuggestSelect(limit, sessionUser, skillName, userId)

SuggestNext ==
  \/ ActionStart(SuggestLimit, ActionInputs)
  \/ CreateSkill(SuggestLimit, ActionInputs)
  \/ AdminRenameSkill(SuggestLimit, ActionInputs)
  \/ Suggest(SuggestLimit, ActionInputs)
  \/ \E r \in BagToSet(pending) : ActionBegin(r)
  \/ \E r \in BagToSet(pending) : ActionSelect(r)
  \/ \E r \in BagToSet(pending) : ActionNotFound(r)
  \/ \E r \in BagToSet(pending) : ActionInsert(r)
  \/ \E r \in BagToSet(pending) : ActionInsertResume(r)
  \/ \E r \in BagToSet(pending) : ActionUpdate(r)
  \/ \E r \in BagToSet(pending) : ActionLog(r)
  \/ \E r \in BagToSet(pending) : ActionCommit(r)
  \/ \E r \in BagToSet(pending) : ActionRollback(r)
  \/ \E r \in BagToSet(pending) : CreateSkillInsert(r)
  \/ \E r \in BagToSet(pending) : CreateSkillInsertResume(r)
  \/ \E r \in BagToSet(pending) : CreateSkillLog(r)
  \/ \E r \in BagToSet(pending) : RenameSkillLog(r)
  \/ \E r \in BagToSet(pending) : SuggestInsert(r)

SuggestSpec == Init /\ [][SuggestNext]_vars

\* ---- properties --------------------------------------------------------------
Terminal == {"Denied", "Cancelled", "Completed"}

\* The transition graph of a session's status.
LegalTransitions ==
  {<<"Requested", "Confirmed">>, <<"Requested", "Denied">>, <<"Requested", "Cancelled">>,
   <<"Confirmed", "Cancelled">>, <<"Confirmed", "Completed">>}

Participants(s) == {Sessions[s].provider_id, Sessions[s].requester_id}

\* The number of rows of the Ratings table `ratings` for session s.
RatingCount(ratings, s) ==
  BagCardinality([rt \in {x \in BagToSet(ratings) : x.session_id = s} |-> ratings[rt]])

\* The step just taken answered a request of kind op (read in the state after
\* the step).
Answered(op) == response.op = op

\* The step is the last statement of the pending handler whose locals are r.
Finished(r) == pending' = pending (-) SetToBag({r})

\* The step is the last statement of a pending handler that was at pc.
FinishedAt(pc) == \E r \in BagToSet(pending) : r.pc = pc /\ Finished(r)

\* C1: when requests are handled one at a time, every change of a session's
\* status is an edge of the transition graph, and a session that is Denied,
\* Cancelled or Completed never changes status again.
C1_StatusFollowsGraph ==
  [][\A s \in SessionIds :
       s \in DOMAIN Sessions' =>
         /\ Sessions'[s].status # Sessions[s].status =>
              <<Sessions[s].status, Sessions'[s].status>> \in LegalTransitions
         /\ Sessions[s].status \in Terminal =>
              Sessions'[s].status = Sessions[s].status]_vars

\* A confirm, deny/cancel or complete request on a Completed session was
\* rejected and the session is still Completed.
C1_Witness ==
  /\ response.op \in {"confirm", "deny", "complete"}
  /\ response.status \in {400, 403}
  /\ response.sessionId \in SessionIds
  /\ Sessions[response.sessionId].status = "Completed"

\* C2: when a confirm and a deny/cancel race on a Requested session, the one
\* whose UPDATE comes second finds the status changed by the winner, changes
\* no row and answers with an error.
C2_LoserReportsError ==
  [][\A r \in BagToSet(pending) :
       (/\ r.pc \in {"confirm_update", "deny_update"}
        /\ Finished(r)
        /\ r.sessionId \in SessionIds
        /\ Sessions[r.sessionId].status # "Requested"
        /\ r.pc = "deny_update" => r.currentStatus = "Requested")
       => /\ response'.status \in {400, 403}
          /\ Sessions' = Sessions]_vars

\* C3: under every interleaving of the statements of concurrent confirm,
\* deny/cancel and complete requests, a Denied, Cancelled or Completed
\* session never changes status and a Confirmed session never becomes Denied.
C3_TerminalUnderInterleaving ==
  [][\A s \in SessionIds :
       s \in DOMAIN Sessions' =>
         /\ Sessions[s].status \in Terminal => Sessions'[s].status = Sessions[s].status
         /\ Sessions[s].status = "Confirmed" => Sessions'[s].status # "Denied"]_vars

\* C4 as stated: a confirm succeeds only on a Requested session and for its
\* provider, and a confirm by the requester of a Requested session is
\* answered 403 and leaves the session Requested.
C4_RequesterConfirmForbidden ==
  [][Answered("confirm")' =>
       LET s == response'.sessionId IN
       /\ response'.status = 200 =>
            /\ s \in SessionIds
            /\ Sessions[s].status = "Requested"
            /\ Sessions[s].provider_id = response'.userId
            /\ Sessions'[s].status = "Confirmed"
       /\ (/\ s \in SessionIds
           /\ Sessions[s].status = "Requested"
           /\ Sessions[s].requester_id = response'.userId)
          => /\ response'.status = 403
             /\ Sessions' = Sessions]_vars

\* C4, amended: a confirm succeeds only on a Requested session and for its
\* provider; a confirm by the requester of a Requested session leaves the
\* session unchanged and is answered 403 when it reaches the UPDATE, and 400
\* when the meeting URL validation rejects it first.
C4_ConfirmOnlyByProvider ==
  [][Answered("confirm")' =>
       LET s == response'.sessionId IN
       /\ response'.status = 200 =>
            /\ s \in SessionIds
            /\ Sessions[s].status = "Requested"
            /\ Sessions[s].provider_id = response'.userId
            /\ Sessions'[s].status = "Confirmed"
       /\ (/\ s \in SessionIds
           /\ Sessions[s].status = "Requested"
           /\ Sessions[s].requester_id = response'.userId)
          => /\ response'.status = IF FinishedAt("confirm_update") THEN 403 ELSE 400
             /\ Sessions' = Sessions]_vars

\* The requester's confirm of a Requested session was answered 403 and the
\* session is still Requested.
C4_Witness ==
  /\ Answered("confirm")
  /\ response.status = 403
  /\ response.sessionId \in SessionIds
  /\ Sessions[response.sessionId].status = "Requested"
  /\ Sessions[response.sessionId].requester_id = response.userId

\* C5: a successful deny/cancel of a Requested session sets Cancelled when
\* the requester acts and Denied when the provider acts; of a Confirmed
\* session it sets Cancelled whichever participant acts.
C5_DenyOutcome ==
  [][(Answered("deny")' /\ response'.status = 200) =>
       LET s == response'.sessionId
           u == response'.userId
       IN
       /\ (Sessions[s].status = "Requested" /\ u = Sessions[s].requester_id)
            => Sessions'[s].status = "Cancelled"
       /\ (Sessions[s].status = "Requested" /\ u = Sessions[s].provider_id)
            => Sessions'[s].status = "Denied"
       /\ (Sessions[s].status = "Confirmed" /\ u \in Participants(s))
            => Sessions'[s].status = "Cancelled"]_vars

\* The provider's deny of a session was answered 200 and the session is
\* Denied.
C5_Witness ==
  /\ Answered("deny")
  /\ response.status = 200
  /\ Sessions[response.sessionId].provider_id = response.userId
  /\ Sessions[response.sessionId].status = "Denied"

\* C6: a deny/cancel by a user who is neither the provider nor the requester
\* of a Requested or Confirmed session is answered 403 and leaves the
\* session's status and cancellation reason unchanged.
C6_DenyOnlyByParticipant ==
  [][Answered("deny")' =>
       LET s == response'.sessionId IN
       (/\ s \in SessionIds
        /\ Sessions[s].status \in {"Requested", "Confirmed"}
        /\ response'.userId \notin Participants(s))
       => /\ response'.status = 403
          /\ Sessions'[s].status = Sessions[s].status
          /\ Sessions'[s].cancellation_reason = Sessions[s].cancellation_reason]_vars

\* C7: complete succeeds only on a Confirmed session; on any other session,
\* or on an id that names no session, it is answered 400 and changes nothing.
C7_CompleteOnlyConfirmed ==
  [][Answered("complete")' =>
       LET s == response'.sessionId
           confirmed == s \in SessionIds /\ Sessions[s].status = "Confirmed"
       IN
       /\ response'.status = 200 => (confirmed /\ Sessions'[s].status = "Completed")
       /\ ~confirmed => (response'.status = 400 /\ Sessions' = Sessions)]_vars

\* A complete request on a Requested session was answered 400 and the
\* session is still Requested.
C7_Witness ==
  /\ Answered("complete")
  /\ response.status = 400
  /\ response.sessionId \in SessionIds
  /\ Sessions[response.sessionId].status = "Requested"

\* C8: a complete request succeeds only when the acting user is the
\* session's provider or requester.
C8_CompleteOnlyByParticipant ==
  (Answered("complete") /\ response.status = 200)
    => response.userId \in Participants(response.sessionId)

\* C9: under any interleaving of the handlers' statements, a rate request
\* stores a Rating only while the session's status is Completed; a rate
\* request on a session in another status is refused and stores none; and a
\* rate request on a session that already has a Rating is answered 409 and
\* leaves the Ratings unchanged.
C9_RateOnlyCompleted ==
  [][Answered("rate")' =>
       LET s == response'.sessionId IN
       /\ Ratings' # Ratings =>
            (s \in SessionIds /\ Sessions[s].status = "Completed")
       /\ (s \in SessionIds /\ Sessions[s].status # "Completed")
            => (response'.status \notin {200, 201} /\ Ratings' = Ratings)
       /\ RatingCount(Ratings, s) > 0
            => (response'.status = 409 /\ Ratings' = Ratings)]_vars

\* C10: there is at most one Rating per session in every reachable state;
\* of the rate requests that have passed the status check for the same
\* session, the first to insert is answered 201 and adds the only Rating,
\* every later one is answered 409 and adds none.
C10_OneRatingPerSession ==
  /\ [](\A s \in 1..MaxSessions : RatingCount(Ratings, s) <= 1)
  /\ [][\A r \in BagToSet(pending) :
          (r.pc = "rate_insert" /\ Finished(r)) =>
            IF RatingCount(Ratings, r.sessionId) = 0
              THEN /\ response'.status = 201
                   /\ RatingCount(Ratings', r.sessionId) = 1
              ELSE /\ response'.status = 409
                   /\ Ratings' = Ratings]_vars

\* Two rate requests for the same session have both passed the status check
\* and neither has inserted yet.
C10_Witness ==
  \E s \in SessionIds :
    /\ Sessions[s].status = "Completed"
    /\ RatingCount(Ratings, s) = 0
    /\ BagCardinality([r \in {x \in BagToSet(pending) :
                                x.pc = "rate_insert" /\ x.sessionId = s}
                         |-> pending[r]]) >= 2

\* C11: under any interleaving of concurrently handled requests, every
\* stored Rating belongs to a session whose status is Completed.
C11_RatedSessionsCompleted ==
  \A rt \in BagToSet(Ratings) :
    /\ rt.session_id \in SessionIds
    /\ Sessions[rt.session_id].status = "Completed"

\* C12: every stored Rating has as raterId and rateeId exactly the two
\* participants of its session, and a rate request that stores a Rating
\* stores the authenticated user who submitted it as raterId.
C12_RatingBetweenParticipants ==
  /\ [](\A rt \in BagToSet(Ratings) :
          /\ rt.session_id \in SessionIds
          /\ {rt.rater_id, rt.ratee_id} = Participants(rt.session_id))
  /\ [][\A r \in BagToSet(pending) :
          (r.pc = "rate_insert" /\ Finished(r) /\ response'.status = 201)
            => r.raterId.v = r.userId]_vars

\* C13: every stored Rating has raterId different from rateeId, and a rate
\* request whose rater and ratee are the same user is answered 400 and
\* creates no Rating.
C13_SelfRatingRejected ==
  /\ [](\A rt \in BagToSet(Ratings) : rt.rater_id # rt.ratee_id)
  /\ [][\A r \in BagToSet(pending) :
          (r.pc = "rate_insert" /\ Finished(r) /\ r.raterId.v = r.rateeId.v)
            => (response'.status = 400 /\ Ratings' = Ratings)]_vars

\* C14: in every reachable state every stored session has providerId
\* different from requesterId, whatever ids the request operations supplied.
C14_NoSelfSession ==
  \A s \in SessionIds : Sessions[s].provider_id # Sessions[s].requester_id

\* A request operation has stored a session (answered 201): its provider and
\* requester are two different users.
C14_Witness ==
  /\ Answered("request")
  /\ response.status = 201
  /\ response.sessionId \in SessionIds
  /\ Sessions[response.sessionId].provider_id # Sessions[response.sessionId].requester_id

\* C15: a request whose requester and provider are the same user, or that
\* lacks one of requesterId, providerId, skillTaughtId, sessionDateTime and
\* locationType, is answered 400 and creates no session.
C15_RequestValidation ==
  [][\A userId \in AllInputs.requestUsers, body \in RequestBodies :
       (/\ RequestSession(OneAtATime, userId, body.requesterId, body.providerId, body.skillTaughtId,
                          body.sessionDateTime, body.locationType, body.meetingUrl)
        /\ \/ JUndef \in {body.requesterId, body.providerId, body.skillTaughtId}
           \/ Absent \in {body.sessionDateTime, body.locationType}
           \/ body.requesterId.v = body.providerId.v)
       => (response'.status = 400 /\ Sessions' = Sessions)]_vars

\* C16: a session created by the request operation has as requesterId the
\* authenticated user who issued the request, and its status is Requested.
C16_CreatedByRequester ==
  [][(Answered("request")' /\ response'.status = 201) =>
       LET s == response'.sessionId IN
       /\ s \notin SessionIds
       /\ s \in DOMAIN Sessions'
       /\ Sessions'[s].requester_id = response'.userId
       /\ Sessions'[s].status = "Requested"]_vars

\* C17: a confirm of an Online session without a non-empty meetingUrl is
\* answered 400 and leaves the session Requested; every Online session that
\* is Confirmed or Completed has a non-empty meetingUrl, and no step changes
\* the meetingUrl of a session that has left Requested (so an Online session
\* Cancelled after its confirmation keeps the one it had).  The last conjunct
\* reads: a step is answered 400 and changes no session, or it leaves no
\* confirm awaiting its UPDATE and answers none, or it is no confirm of an
\* Online session without a non-empty meetingUrl.
C17_OnlineHasUrlOnceConfirmed ==
  /\ [](\A s \in SessionIds :
          (Sessions[s].status \in {"Confirmed", "Completed"}
             /\ Sessions[s].location_type = "Online")
            => Truthy(Sessions[s].meeting_url))
  /\ [][\A s \in SessionIds :
          (s \in DOMAIN Sessions' /\ Sessions[s].status # "Requested")
            => Sessions'[s].meeting_url = Sessions[s].meeting_url]_vars
  /\ [][\/ response'.op \notin {"confirm", "none"}
        \/ response'.status = 400 /\ Sessions' = Sessions
        \/ response' = NoResponse /\ \A r \in BagToSet(pending') : r.op # "confirm"
        \/ \A userId \in UserIds, sessionId \in SessionIdInputs, meetingUrl \in {Absent, <<"">>} :
             ~(/\ sessionId.v \in SessionIds
               /\ Sessions[sessionId.v].location_type = "Online"
               /\ ConfirmSelect(OneAtATime, userId, sessionId, meetingUrl))]_vars

\* The confirm of an Online session has succeeded: the session is Confirmed
\* and stores the meeting URL of the confirm request.
C17_Witness ==
  /\ Answered("confirm")
  /\ response.status = 200
  /\ Sessions[response.sessionId].location_type = "Online"
  /\ Sessions[response.sessionId].status = "Confirmed"
  /\ Sessions[response.sessionId].meeting_url = <<ShortUrl>>

\* C18: no stored meetingUrl is longer than 255 characters; a confirm of a
\* session with a meetingUrl longer than 255 characters is answered 400 and
\* changes no session, and a request with such a URL stores no session.  The
\* second conjunct reads: a step is answered 400 and changes no session, or it
\* leaves no confirm awaiting its UPDATE and answers none, or it is no confirm
\* of a session with such a URL; the third reads likewise for request.
C18_UrlAtMost255 ==
  /\ [](\A s \in SessionIds : TextLen(Sessions[s].meeting_url) <= 255)
  /\ [][\/ response'.op \notin {"confirm", "none"}
        \/ response'.status = 400 /\ Sessions' = Sessions
        \/ response' = NoResponse /\ \A r \in BagToSet(pending') : r.op # "confirm"
        \/ \A userId \in UserIds, sessionId \in SessionIdInputs :
             ~(/\ sessionId.v \in SessionIds
               /\ ConfirmSelect(OneAtATime, userId, sessionId, <<LongUrl>>))]_vars
  /\ [][\/ response'.op \notin {"request", "none"}
        \/ response'.status # 201 /\ Sessions' = Sessions
        \/ \A userId \in AllInputs.requestUsers, body \in FullRequestBodies :
             ~(/\ body.meetingUrl = <<LongUrl>>
               /\ RequestSession(OneAtATime, userId, body.requesterId, body.providerId,
                                 body.skillTaughtId, body.sessionDateTime,
                                 body.locationType, body.meetingUrl))]_vars

\* A confirm of an in-person session, which needs no meeting URL, was
\* answered 400: its meetingUrl was longer than 255 characters; the session
\* is still Requested.
C18_Witness ==
  /\ Len(LongUrl) > 255
  /\ Answered("confirm")
  /\ response.status = 400
  /\ response.sessionId \in SessionIds
  /\ Sessions[response.sessionId].location_type = "InPerson"
  /\ Sessions[response.sessionId].status = "Requested"

\* The number of stored Ratings whose ratee is user u, and of those that are
\* likes.
RatingsReceived(u) ==
  CountRows(Ratings, {rt \in BagToSet(Ratings) : rt.ratee_id = u})
LikesReceived(u) ==
  CountRows(Ratings, {rt \in BagToSet(Ratings) : rt.ratee_id = u /\ rt.like_status = <<TRUE>>})

\* C19: for a user who is the ratee of no Rating the rating summary returns
\* totalRatingsReceived = 0 and totalLikes = 0, and neither field is null.
C19_ZerosWhenUnrated ==
  (Answered("summary") /\ RatingsReceived(response.id) = 0) =>
    LET ratings == response.ratings[1] IN
    /\ ratings.total_ratings_received.ty # "null"
    /\ ratings.total_ratings_received.v = 0
    /\ ratings.total_likes.ty # "null"
    /\ ratings.total_likes.v = 0

\* C20: after any sequence of lifecycle operations the rating summary of
\* user u reports as totalRatingsReceived the number of stored Ratings whose
\* ratee is u and as totalLikes the number of those that are likes.
C20_SummaryCountsRatings ==
  Answered("summary") =>
    LET ratings == response.ratings[1] IN
    /\ ratings.total_ratings_received.ty # "null"
    /\ ratings.total_ratings_received.v = RatingsReceived(response.id)
    /\ ratings.total_likes.ty # "null"
    /\ ratings.total_likes.v = LikesReceived(response.id)
    /\ ratings.total_likes.v <= ratings.total_ratings_received.v

\* C21 as stated: right after a successful request the session history of
\* the requester, and of the provider, holds the new session with the
\* providerId, requesterId, sessionDateTime, locationType and meetingUrl
\* that were supplied (meetingUrl null when none was supplied) and status
\* Requested.
C21_RoundTripIdentical ==
  [][\/ ~(response'.op = "request" /\ response'.status = 201)
     \/ \A userId \in AllInputs.requestUsers, body \in RequestBodies :
          RequestSession(OneAtATime, userId, body.requesterId, body.providerId, body.skillTaughtId,
                         body.sessionDateTime, body.locationType, body.meetingUrl)
          => \A id \in {body.requesterId.v, body.providerId.v} :
               \E row \in UserSessionsQuery(id)' :
                 /\ row.session_id = response'.sessionId
                 /\ row.provider_id = body.providerId.v
                 /\ row.requester_id = body.requesterId.v
                 /\ row.session_date_time = body.sessionDateTime[1]
                 /\ row.location_type = body.locationType[1]
                 /\ row.meeting_url = (IF body.meetingUrl \in {Absent, <<"">>}
                                         THEN Null ELSE body.meetingUrl)
                 /\ row.status = "Requested"]_vars

\* C21, amended: as stated, except that the sessionDateTime returned is the
\* instant that was supplied, rendered in UTC with milliseconds, not the
\* text that was supplied.
C21_RoundTripSameInstant ==
  [][\/ ~(response'.op = "request" /\ response'.status = 201)
     \/ \A userId \in AllInputs.requestUsers, body \in RequestBodies :
          RequestSession(OneAtATime, userId, body.requesterId, body.providerId, body.skillTaughtId,
                         body.sessionDateTime, body.locationType, body.meetingUrl)
          => \A id \in {body.requesterId.v, body.providerId.v} :
               \E row \in UserSessionsQuery(id)' :
                 /\ row.session_id = response'.sessionId
                 /\ row.provider_id = body.providerId.v
                 /\ row.requester_id = body.requesterId.v
                 /\ TimestampInstant(row.session_date_time)
                      = TimestampInstant(body.sessionDateTime[1])
                 /\ row.session_date_time = "2025-06-01T10:00:00.000Z"
                 /\ row.location_type = body.locationType[1]
                 /\ row.meeting_url = (IF body.meetingUrl \in {Absent, <<"">>}
                                         THEN Null ELSE body.meetingUrl)
                 /\ row.status = "Requested"]_vars

\* The session history of the requester was fetched while the session was
\* Requested: it holds the session, with the meeting URL supplied.
C21_Witness ==
  /\ Answered("sessions")
  /\ \E row \in response.sessions :
       /\ row.requester_id = response.id
       /\ row.status = "Requested"
       /\ row.meeting_url = <<ShortUrl>>
       /\ row.session_date_time = "2025-06-01T10:00:00.000Z"

\* C22: a session's cancellationReason is non-null exactly when its status
\* is Denied or Cancelled; a successful deny/cancel sets it to the supplied
\* reason, or to 'No reason provided' when the reason is absent or empty, and
\* no other operation writes it.  The second conjunct reads: whenever a step
\* is the first part of a deny/cancel with some reason, the handler it leaves
\* awaiting its UPDATE carries that reason, or the placeholder.
C22_ReasonIffDeniedOrCancelled ==
  /\ [](\A s \in SessionIds :
          Sessions[s].cancellation_reason # Null
            <=> Sessions[s].status \in {"Denied", "Cancelled"})
  /\ [][\/ response' # NoResponse
        \/ pending' = pending
        \/ \A r \in BagToSet(pending') :
             \/ r.op # "deny"
             \/ \A reason \in ReasonInputs :
                  DenySelect(OneAtATime, r.userId, JNum(r.sessionId), reason)
                  => /\ r.pc = "deny_update"
                     /\ r.reason = IF reason \in {Absent, <<"">>}
                                     THEN <<"No reason provided">> ELSE reason]_vars
  /\ [][\/ response'.op # "deny"
        \/ \A r \in BagToSet(pending) :
             (r.pc = "deny_update" /\ Finished(r))
               => /\ response'.status = 200
                  /\ Sessions'[r.sessionId].cancellation_reason = r.reason]_vars
  /\ [][\/ Sessions' = Sessions
        \/ \A s \in SessionIds :
          (s \in DOMAIN Sessions'
             /\ Sessions'[s].cancellation_reason # Sessions[s].cancellation_reason)
            => \E r \in BagToSet(pending) :
                 r.pc = "deny_update" /\ r.sessionId = s /\ Finished(r)]_vars

\* A deny/cancel with an empty reason has succeeded: the session is Denied or
\* Cancelled with the default reason.
C22_Witness ==
  /\ Answered("deny")
  /\ response.status = 200
  /\ Sessions[response.sessionId].status \in {"Denied", "Cancelled"}
  /\ Sessions[response.sessionId].cancellation_reason = <<"No reason provided">>

\* The rows a and b agree on every column but those in `columns`.
SameExcept(a, b, columns) == \A c \in (DOMAIN a) \ columns : a[c] = b[c]

\* C23: no step changes a session's id, providerId, requesterId, skillId,
\* sessionDateTime or locationType; a step that changes a session is a
\* confirm, deny/cancel or complete of that very session, and it changes
\* status and meetingUrl only (confirm), status and cancellationReason only
\* (deny/cancel) or status only (complete); a rate changes no session.
C23_FrameOfLifecycle ==
  [][\A s \in SessionIds :
       /\ s \in DOMAIN Sessions'
       /\ SameExcept(Sessions[s], Sessions'[s],
                     {"status", "meeting_url", "cancellation_reason"})
       /\ Sessions'[s] # Sessions[s] =>
            /\ response'.sessionId = s
            /\ response'.op \in {"confirm", "deny", "complete"}
            /\ response'.op = "confirm" =>
                 SameExcept(Sessions[s], Sessions'[s], {"status", "meeting_url"})
            /\ response'.op = "deny" =>
                 SameExcept(Sessions[s], Sessions'[s], {"status", "cancellation_reason"})
            /\ response'.op = "complete" =>
                 SameExcept(Sessions[s], Sessions'[s], {"status"})]_vars

\* Of two stored sessions one has just been confirmed with a meeting URL and
\* the other is still Requested.
C23_Witness ==
  /\ Answered("confirm")
  /\ response.status = 200
  /\ Sessions[response.sessionId].status = "Confirmed"
  /\ Sessions[response.sessionId].meeting_url = <<ShortUrl>>
  /\ \E t \in SessionIds \ {response.sessionId} : Sessions[t].status = "Requested"

\* C24: a confirm, deny/cancel, complete or rate request that is answered
\* 400, 403, 404 or 409 changes no session and no Rating: neither the step
\* that answers nor, before it, the step that only read the session.
C24_ErrorsChangeNothing ==
  [][(\/ /\ response'.op \in {"confirm", "deny", "complete", "rate"}
         /\ response'.status \in {400, 403, 404, 409}
      \/ /\ response'.op = "none"
         /\ \E r \in BagToSet(pending') : r.op \in {"confirm", "deny", "rate"})
     => (Sessions' = Sessions /\ Ratings' = Ratings)]_vars

\* A confirm of a session that is already Confirmed was answered 403.
C24_Witness ==
  /\ Answered("confirm")
  /\ response.status = 403
  /\ response.sessionId \in SessionIds
  /\ Sessions[response.sessionId].status = "Confirmed"
  /\ Sessions[response.sessionId].provider_id = response.userId

\* C25: a session row (and with it its Rating) disappears only when the
\* account of its provider or of its requester is deleted: whenever a step
\* removes a session, one of its two participants leaves the Users table in
\* that step and no Rating of the session is left; no other operation, the
\* administrator's deletion of a skill included, removes a session.
C25_SessionsRemovedOnlyWithParticipant ==
  [][\A s \in SessionIds :
       s \notin DOMAIN Sessions' =>
         /\ \/ Sessions[s].provider_id \notin DOMAIN Users'
            \/ Sessions[s].requester_id \notin DOMAIN Users'
         /\ \A rt \in BagToSet(Ratings') : rt.session_id # s]_vars

\* The values of the rows of `list` that belong to the user with id `id`.
StoredList(tables, list, id) ==
  {[user_id |-> row.user_id, skill_id |-> row.skill_id,
    is_virtual_only |-> row.is_virtual_only,
    is_inperson_only |-> row.is_inperson_only] :
     row \in {x \in tables[list] : x.user_id = id}}

\* C26: replacing a skill list is all-or-nothing: when the request succeeds
\* (200) the stored list of the user is exactly the supplied entries that
\* carry a skillId; when it is refused or fails (400, 500) the stored lists
\* are unchanged; and every connection checked out of the pool belongs to a
\* request still being handled, so each exit path has released its own.
C26_ReplaceAllOrNothing ==
  /\ [](clients = BagCardinality(pending))
  /\ [][\A r \in BagToSet(pending) :
          (r.op = "replaceSkills" /\ Finished(r)) =>
            /\ response'.status \in {200, 500}
            /\ response'.status = 200 =>
                 LET rows == NewSkillRows(r.targetId, r.skills[1])
                 IN StoredList(User_Skills', r.list, r.targetId.v)
                      = {rows[i] : i \in DOMAIN rows}
            /\ response'.status = 500 => User_Skills' = User_Skills]_vars
  /\ [][response'.status = 400 => User_Skills' = User_Skills]_vars

\* C27: the lifecycle events of a session come in order. A session is
\* created Requested and never returns to Requested; a step makes it
\* Confirmed only from Requested and only as the UPDATE of a confirm by its
\* provider; a step makes it Completed only from Confirmed; a rate handler
\* goes on to its INSERT only when it has read the session as Completed, and
\* a Rating is stored only by such an INSERT. Hence no session is Completed
\* or rated without having been confirmed by its provider.
C27_LifecycleOrder ==
  /\ [][Sessions' = Sessions \/ \A s \in DOMAIN Sessions' :
          IF s \notin SessionIds
            THEN Sessions'[s].status = "Requested"
            ELSE /\ Sessions[s].status # "Requested" => Sessions'[s].status # "Requested"
                 /\ (Sessions'[s].status = "Confirmed" /\ Sessions[s].status # "Confirmed") =>
                      /\ Sessions[s].status = "Requested"
                      /\ \E r \in BagToSet(pending) :
                           /\ r.pc = "confirm_update" /\ Finished(r)
                           /\ r.sessionId = s /\ r.userId = Sessions[s].provider_id
                 /\ (Sessions'[s].status = "Completed" /\ Sessions[s].status # "Completed") =>
                      Sessions[s].status = "Confirmed"]_vars
  /\ [][response' # NoResponse \/ \A r \in BagToSet(pending') :
          (r.pc = "rate_insert" /\ r \notin BagToSet(pending)) =>
            /\ r.sessionId \in SessionIds
            /\ Sessions[r.sessionId].status = "Completed"
            /\ r.currentStatus = "Completed"]_vars
  /\ [][Ratings' = Ratings \/ \A s \in SessionIds :
          RatingCount(Ratings', s) > RatingCount(Ratings, s) =>
            \E r \in BagToSet(pending) :
              /\ r.pc = "rate_insert" /\ Finished(r)
              /\ r.sessionId = s /\ r.currentStatus = "Completed"]_vars
  /\ [](\A rt \in BagToSet(Ratings) : rt.session_id \in SessionIds)

\* A session that went through the whole lifecycle: Completed and rated.
C27_Witness ==
  \E s \in SessionIds : Sessions[s].status = "Completed" /\ RatingCount(Ratings, s) = 1

\* C28: of the confirm requests of the provider that reach their UPDATE on the
\* same session, in any order or interleaving, the one that finds it Requested
\* succeeds (200) and stores Confirmed and its own meetingUrl; every one that
\* finds it no longer Requested is answered 403 and changes no session. Of
\* the complete requests on the same session, the one that finds it Confirmed
\* succeeds (200) and stores Completed; every other is answered 400 and
\* changes no session. As no step makes a session Requested or Confirmed
\* again after such a success, exactly one of two such requests succeeds.
C28_OneConfirmOneComplete ==
  /\ [][\/ response'.op # "confirm"
        \/ \A r \in BagToSet(pending) :
             (r.pc = "confirm_update" /\ Finished(r)) =>
               LET s == r.sessionId IN
               IF /\ s \in SessionIds
                  /\ Sessions[s].status = "Requested"
                  /\ Sessions[s].provider_id = r.userId
                 THEN /\ response'.status = 200
                      /\ Sessions' = [Sessions EXCEPT ![s].status = "Confirmed",
                                                      ![s].meeting_url = r.meetingUrl]
                 ELSE /\ response'.status = 403
                      /\ Sessions' = Sessions]_vars
  /\ [][\/ response'.op # "complete"
        \/ LET s == response'.sessionId IN
           IF s \in SessionIds /\ Sessions[s].status = "Confirmed"
             THEN /\ response'.status = 200
                  /\ Sessions' = [Sessions EXCEPT ![s].status = "Completed"]
             ELSE /\ response'.status = 400
                  /\ Sessions' = Sessions]_vars
  /\ [][\A s \in SessionIds :
          /\ s \in DOMAIN Sessions'
          /\ Sessions[s].status # "Requested" => Sessions'[s].status # "Requested"
          /\ Sessions[s].status \in {"Completed", "Denied", "Cancelled"} =>
               Sessions'[s].status # "Confirmed"]_vars

\* The provider's second confirm has just been rejected: the session is
\* Confirmed by the first, whose handler is no longer in flight.
C28_Witness ==
  /\ response.op = "confirm" /\ response.status = 403
  /\ response.sessionId \in SessionIds
  /\ Sessions[response.sessionId].status = "Confirmed"
  /\ Sessions[response.sessionId].provider_id = response.userId

\* C29: a confirm carries to its UPDATE the meetingUrl that was supplied, or
\* null when none (or an empty one) was supplied, which only a confirm of a
\* session that is not Online may do; a successful confirm stores exactly
\* that value, whatever meetingUrl the request had stored before.  The first
\* conjunct reads: whenever a step is the first part of a confirm with some
\* meetingUrl, the handler it leaves awaiting its UPDATE carries that value.
C29_ConfirmStoresSuppliedUrl ==
  /\ [][\/ response' # NoResponse
        \/ pending' = pending
        \/ \A r \in BagToSet(pending') :
             \/ r.op # "confirm"
             \/ \A meetingUrl \in UrlInputs :
                  ConfirmSelect(OneAtATime, r.userId, JNum(r.sessionId), meetingUrl) =>
                    /\ r.meetingUrl = IF meetingUrl \in {Absent, <<"">>} THEN Null ELSE meetingUrl
                    /\ r.meetingUrl = Null => Sessions[r.sessionId].location_type # "Online"]_vars
  /\ [][\/ response'.op # "confirm"
        \/ response'.status # 200
        \/ \A r \in BagToSet(pending) :
             (r.pc = "confirm_update" /\ Finished(r)) =>
               /\ Sessions'[r.sessionId].status = "Confirmed"
               /\ Sessions'[r.sessionId].meeting_url = r.meetingUrl]_vars

\* A confirm without a meetingUrl has succeeded on a session that is not
\* Online: the session is Confirmed and its meetingUrl is null.
C29_Witness ==
  /\ Answered("confirm")
  /\ response.status = 200
  /\ Sessions[response.sessionId].status = "Confirmed"
  /\ Sessions[response.sessionId].location_type # "Online"
  /\ Sessions[response.sessionId].meeting_url = Null

\* The names the Skills table `skills` lists.
SkillNames(skills) == {skills[k] : k \in DOMAIN skills}

\* C30: a suggestion is processed at most once: a step changes a suggestion
\* only while its status is Pending; and, under any interleaving of the
\* administrator's actions with each other and with the other requests on
\* the catalogue, a step of the action makes a suggestion Approved exactly
\* when it adds the suggestion's name to the Skills list, and a step that
\* makes it Rejected adds no skill.
C30_SuggestionProcessedOnce ==
  /\ [][\A id \in DOMAIN Skill_Suggestions :
          Skill_Suggestions'[id] # Skill_Suggestions[id] =>
            Skill_Suggestions[id].status = "Pending"]_vars
  /\ [][response'.op = "suggestionAction" =>
          \A id \in DOMAIN Skill_Suggestions :
            LET name == Skill_Suggestions[id].suggested_skill_name
                becomes(status) == /\ Skill_Suggestions'[id].status = status
                                   /\ Skill_Suggestions[id].status # status
            IN /\ becomes("Approved") <=>
                    name \in SkillNames(Skills') \ SkillNames(Skills)
               /\ becomes("Rejected") => Skills' = Skills]_vars
====
